---- MODULE Spec2Model ----
(***************************************************************************)
(* A model of the affinity and moderation state engine of                 *)
(* astrbot_plugin_favor (src/main.py): class FavorManager and the event   *)
(* handlers and administrative commands of class FavorPlugin that drive   *)
(* it.  Python dicts are functions whose DOMAIN is the set of keys that   *)
(* are present; the ten stores of the manager are ten variables and the   *)
(* files they are saved to are the variable disk.  time.time() is the     *)
(* variable now, in seconds.                                              *)
(***************************************************************************)
EXTENDS Integers, FiniteSets, Sequences, TLC

(***************************************************************************)
(* Identifiers.  Every caller passes identifiers through str(); a session *)
(* id is the unified message origin (UMO) of an event.                     *)
(***************************************************************************)
None == "None"
bot_self_id == "bot"
Users == {"bot", "u1"}
Sessions == {"g1", "p1"}
DefaultName == "default"
NameHints == {None, "nick"}

(***************************************************************************)
(* Configuration read by _init_config with config.get.  The three         *)
(* addressing-mode flags are chosen at construction (variables below);    *)
(* the numbers are the values one deployment configures, chosen small:    *)
(* an affinity range of four values around 0, a strike threshold of 2,    *)
(* and windows of one hour.  The affinity range and the three decay       *)
(* parameters are attributes of the manager (variables below) that        *)
(* _init_config sets from the configured values config_...: the range     *)
(* differs between deployments and the decay parameters can be changed    *)
(* while the process runs.                                                *)
(***************************************************************************)
black_threshold == 2
config_min_favor_value == -2
config_max_favor_value == 1
black_favor_limit == -1
auto_remove_enabled == TRUE
auto_remove_hours == 1
config_auto_decrease_counter == TRUE
config_auto_decrease_counter_hours == 1
config_auto_decrease_counter_amount == 2

(***************************************************************************)
(* Bounds of the model: the clock starts at StartTime and advances by at  *)
(* most MaxTicks hours; strike counters and blacklist counts are capped.  *)
(***************************************************************************)
StartTime == 1700000000
MaxTicks == 1
MaxStrike == 3
MaxCount == 2
\* The scores the two tier functions are applied to: -MaxTier .. MaxTier.
MaxTier == 1000
\* The LLM requests that may wait for their response at the same time.
MaxInFlight == 2

VARIABLES
  favor_data, session_favor_data,
  blacklist, session_blacklist,
  whitelist,
  low_counter, session_low_counter,
  last_decrease_time,
  blacklist_counts, session_blacklist_counts,
  disk,
  session_based_favor, session_based_blacklist, session_based_counter,
  min_favor_value, max_favor_value,
  auto_decrease_enabled, auto_decrease_hours, auto_decrease_amount,
  now,
  umos,   \* the sessions (UMOs) events arrive from
  process,   \* "running", "stopped", or "failed" when the constructor raised
  value, level, levell,   \* a score and what the two tier functions return for it
  inflight,   \* the LLM requests that were let through and wait for their response
  loop,   \* the request whose response handler holds the event loop, or 0
  origin,   \* the manager as the first of a burst of responses found it
  completion_text, returned_delta   \* a response text and what _calculate_favor_delta returned for it

stores == << favor_data, session_favor_data, blacklist, session_blacklist,
             whitelist, low_counter, session_low_counter, last_decrease_time,
             blacklist_counts, session_blacklist_counts >>
flags == << session_based_favor, session_based_blacklist, session_based_counter >>
limits == << min_favor_value, max_favor_value >>
decay == << auto_decrease_enabled, auto_decrease_hours, auto_decrease_amount >>
config == << flags, limits, decay >>
tier == << value, level, levell >>
conc == << inflight, loop, origin >>
draw == << completion_text, returned_delta >>
vars == << stores, disk, config, now, umos, draw, process, tier, conc >>

(***************************************************************************)
(* Python dict operations.                                                 *)
(***************************************************************************)
EmptyDict == [k \in {} |-> 0]
Get(d, k, dflt) == IF k \in DOMAIN d THEN d[k] ELSE dflt
Put(d, k, v) == [x \in (DOMAIN d) \cup {k} |-> IF x = k THEN v ELSE d[x]]
Del(d, k) == [x \in (DOMAIN d) \ {k} |-> d[x]]
Max(a, b) == IF a >= b THEN a ELSE b
Min(a, b) == IF a <= b THEN a ELSE b

StoreNames == {"favor_data", "session_favor_data", "blacklist",
               "session_blacklist", "whitelist", "low_counter",
               "session_low_counter", "last_decrease_time",
               "blacklist_counts", "session_blacklist_counts"}

\* What a file holds: a JSON object (kind "mapping", with its data), nothing
\* because the path does not exist ("absent"), text json.load rejects
\* ("unparseable"), or JSON that is not an object, such as a list
\* ("not_mapping").
File(data) == [kind |-> "mapping", data |-> data]
Absent == [kind |-> "absent"]
Unparseable == [kind |-> "unparseable"]
NotMapping == [kind |-> "not_mapping"]

\* The data directory in which every file holds the empty mapping.
EmptyStores == [f \in StoreNames |-> File(EmptyDict)]

\* The manager object: its ten stores and the files behind them.
Mgr == [favor_data |-> favor_data,
        session_favor_data |-> session_favor_data,
        blacklist |-> blacklist,
        session_blacklist |-> session_blacklist,
        whitelist |-> whitelist,
        low_counter |-> low_counter,
        session_low_counter |-> session_low_counter,
        last_decrease_time |-> last_decrease_time,
        blacklist_counts |-> blacklist_counts,
        session_blacklist_counts |-> session_blacklist_counts,
        disk |-> disk]

\* The stores of a manager value, without the files.
Mem(M) == [f \in StoreNames |-> M[f]]

_save_data(M, filename) ==
  [M EXCEPT !.disk = [@ EXCEPT ![filename] = File(M[filename])]]


(***************************************************************************)
(* Blacklist Registry.                                                     *)
(***************************************************************************)
is_blacklisted(M, user_id, session_id) ==
  IF user_id = bot_self_id THEN FALSE
  ELSE IF session_based_blacklist /\ session_id # None
       THEN user_id \in DOMAIN Get(M.session_blacklist, session_id, EmptyDict)
       ELSE user_id \in DOMAIN M.blacklist

\* Mutant: the incremented count is not written to its file.
increment_blacklist_count_Unsaved(M, user_id, session_id_of_actual_blacklist) ==
  IF user_id = bot_self_id THEN M
  ELSE IF session_based_blacklist
       THEN IF session_id_of_actual_blacklist # None
            THEN LET s == session_id_of_actual_blacklist
                     row == Get(M.session_blacklist_counts, s, EmptyDict)
                 IN [M EXCEPT !.session_blacklist_counts =
                       Put(@, s, Put(row, user_id, Get(row, user_id, 0) + 1))]
            ELSE M
       ELSE [M EXCEPT !.blacklist_counts = Put(@, user_id, Get(@, user_id, 0) + 1)]

_increment_blacklist_count(M, user_id, session_id_of_actual_blacklist) ==
  IF user_id = bot_self_id THEN M
  ELSE IF session_based_blacklist
       THEN IF session_id_of_actual_blacklist # None
            THEN LET s == session_id_of_actual_blacklist
                     row == Get(M.session_blacklist_counts, s, EmptyDict)
                     current_s_count == Get(row, user_id, 0)
                 IN _save_data(
                      [M EXCEPT !.session_blacklist_counts =
                         Put(@, s, Put(row, user_id, current_s_count + 1))],
                      "session_blacklist_counts")
            ELSE M
       ELSE LET current_g_count == Get(M.blacklist_counts, user_id, 0)
            IN _save_data(
                 [M EXCEPT !.blacklist_counts = Put(@, user_id, current_g_count + 1)],
                 "blacklist_counts")

\* Mutant: the count is incremented on every call, not on first insertion only.
add_to_blacklist_AlwaysCounts(M, user_id, session_id, auto_added, t) ==
  IF user_id = bot_self_id THEN M
  ELSE LET data_to_add == [timestamp |-> t, auto_added |-> auto_added]
           eff == IF session_based_blacklist /\ session_id # None
                  THEN session_id ELSE None
           M1 == IF eff # None
                 THEN _save_data(
                        [M EXCEPT !.session_blacklist =
                           Put(@, eff, Put(Get(@, eff, EmptyDict), user_id, data_to_add))],
                        "session_blacklist")
                 ELSE _save_data(
                        [M EXCEPT !.blacklist = Put(@, user_id, data_to_add)],
                        "blacklist")
       IN _increment_blacklist_count(M1, user_id, eff)

\* Mutant: the entry of a user who is listed already is kept as it is.
add_to_blacklist_KeepsEntry(M, user_id, session_id, auto_added, t) ==
  IF user_id = bot_self_id THEN M
  ELSE LET data_to_add == [timestamp |-> t, auto_added |-> auto_added]
           eff == IF session_based_blacklist /\ session_id # None
                  THEN session_id ELSE None
           created_new_blacklist_entry ==
             IF eff # None
             THEN user_id \notin DOMAIN Get(M.session_blacklist, eff, EmptyDict)
             ELSE user_id \notin DOMAIN M.blacklist
           M1 == IF eff # None
                 THEN _save_data(
                        [M EXCEPT !.session_blacklist =
                           Put(@, eff, Put(Get(@, eff, EmptyDict), user_id, data_to_add))],
                        "session_blacklist")
                 ELSE _save_data(
                        [M EXCEPT !.blacklist = Put(@, user_id, data_to_add)],
                        "blacklist")
       IN IF created_new_blacklist_entry
          THEN _increment_blacklist_count(M1, user_id, eff)
          ELSE M

add_to_blacklist(M, user_id, session_id, auto_added, t) ==
  IF user_id = bot_self_id THEN M
  ELSE LET data_to_add == [timestamp |-> t, auto_added |-> auto_added]
           eff == IF session_based_blacklist /\ session_id # None
                  THEN session_id ELSE None
           created_new_blacklist_entry ==
             IF eff # None
             THEN user_id \notin DOMAIN Get(M.session_blacklist, eff, EmptyDict)
             ELSE user_id \notin DOMAIN M.blacklist
           M1 == IF eff # None
                 THEN _save_data(
                        [M EXCEPT !.session_blacklist =
                           Put(@, eff, Put(Get(@, eff, EmptyDict), user_id, data_to_add))],
                        "session_blacklist")
                 ELSE _save_data(
                        [M EXCEPT !.blacklist = Put(@, user_id, data_to_add)],
                        "blacklist")
       IN IF created_new_blacklist_entry
          THEN _increment_blacklist_count(M1, user_id, eff)
          ELSE M1

get_blacklist_count(M, user_id, session_id) ==
  IF user_id = bot_self_id THEN 0
  ELSE IF session_based_blacklist /\ session_id # None
       THEN Get(Get(M.session_blacklist_counts, session_id, EmptyDict), user_id, 0)
       ELSE Get(M.blacklist_counts, user_id, 0)

(***************************************************************************)
(* Strike Counter.                                                         *)
(***************************************************************************)
get_low_counter(M, user_id, session_id) ==
  IF session_based_counter /\ session_id # None
  THEN Get(Get(M.session_low_counter, session_id, EmptyDict), user_id, 0)
  ELSE Get(M.low_counter, user_id, 0)

\* Mutant: every strike is counted in the global store.
increment_low_counter_GlobalStore(M, user_id, session_id) ==
  IF user_id = bot_self_id THEN M
  ELSE _save_data(
         [M EXCEPT !.low_counter = Put(@, user_id, Get(@, user_id, 0) + 1)],
         "low_counter")

increment_low_counter(M, user_id, session_id) ==
  IF user_id = bot_self_id THEN M
  ELSE IF session_based_counter /\ session_id # None
       THEN LET row == Get(M.session_low_counter, session_id, EmptyDict)
            IN _save_data(
                 [M EXCEPT !.session_low_counter =
                    Put(@, session_id, Put(row, user_id, Get(row, user_id, 0) + 1))],
                 "session_low_counter")
       ELSE _save_data(
              [M EXCEPT !.low_counter = Put(@, user_id, Get(@, user_id, 0) + 1)],
              "low_counter")

reset_low_counter(M, user_id, session_id) ==
  IF session_based_counter /\ session_id # None
  THEN IF /\ session_id \in DOMAIN M.session_low_counter
          /\ user_id \in DOMAIN M.session_low_counter[session_id]
       THEN LET row == Del(M.session_low_counter[session_id], user_id)
            IN _save_data(
                 [M EXCEPT !.session_low_counter =
                    IF DOMAIN row = {} THEN Del(@, session_id)
                    ELSE Put(@, session_id, row)],
                 "session_low_counter")
       ELSE M
  ELSE IF user_id \in DOMAIN M.low_counter
       THEN _save_data([M EXCEPT !.low_counter = Del(@, user_id)], "low_counter")
       ELSE M

\* Mutant: the affinity and the strike counter are reset whether or not an
\* entry was removed.
remove_from_blacklist_AlwaysResets(M, user_id, session_id) ==
  LET sid_favor_reset == IF session_based_favor /\ session_id # None
                         THEN session_id ELSE None
      sid_counter_reset == IF session_based_counter /\ session_id # None
                           THEN session_id ELSE None
      in_session == /\ session_id \in DOMAIN M.session_blacklist
                    /\ user_id \in DOMAIN M.session_blacklist[session_id]
      M1 == IF session_based_blacklist /\ session_id # None
            THEN IF in_session
                 THEN LET row == Del(M.session_blacklist[session_id], user_id)
                      IN _save_data(
                           [M EXCEPT !.session_blacklist =
                              IF DOMAIN row = {} THEN Del(@, session_id)
                              ELSE Put(@, session_id, row)],
                           "session_blacklist")
                 ELSE M
            ELSE IF user_id \in DOMAIN M.blacklist
                 THEN _save_data([M EXCEPT !.blacklist = Del(@, user_id)], "blacklist")
                 ELSE M
      M2 == IF sid_favor_reset # None
            THEN IF /\ sid_favor_reset \in DOMAIN M1.session_favor_data
                    /\ user_id \in DOMAIN M1.session_favor_data[sid_favor_reset]
                 THEN _save_data(
                        [M1 EXCEPT !.session_favor_data[sid_favor_reset][user_id].favor = 0],
                        "session_favor_data")
                 ELSE M1
            ELSE IF user_id \in DOMAIN M1.favor_data
                 THEN _save_data([M1 EXCEPT !.favor_data[user_id].favor = 0], "favor_data")
                 ELSE M1
  IN reset_low_counter(M2, user_id, sid_counter_reset)

remove_from_blacklist(M, user_id, session_id) ==
  LET sid_favor_reset == IF session_based_favor /\ session_id # None
                         THEN session_id ELSE None
      sid_counter_reset == IF session_based_counter /\ session_id # None
                           THEN session_id ELSE None
      in_session == /\ session_id \in DOMAIN M.session_blacklist
                    /\ user_id \in DOMAIN M.session_blacklist[session_id]
      removed_from_any_blacklist ==
        IF session_based_blacklist /\ session_id # None
        THEN in_session
        ELSE user_id \in DOMAIN M.blacklist
      M1 == IF session_based_blacklist /\ session_id # None
            THEN IF in_session
                 THEN LET row == Del(M.session_blacklist[session_id], user_id)
                      IN _save_data(
                           [M EXCEPT !.session_blacklist =
                              IF DOMAIN row = {} THEN Del(@, session_id)
                              ELSE Put(@, session_id, row)],
                           "session_blacklist")
                 ELSE M
            ELSE IF user_id \in DOMAIN M.blacklist
                 THEN _save_data([M EXCEPT !.blacklist = Del(@, user_id)], "blacklist")
                 ELSE M
      M2 == IF sid_favor_reset # None
            THEN IF /\ sid_favor_reset \in DOMAIN M1.session_favor_data
                    /\ user_id \in DOMAIN M1.session_favor_data[sid_favor_reset]
                 THEN _save_data(
                        [M1 EXCEPT !.session_favor_data[sid_favor_reset][user_id].favor = 0],
                        "session_favor_data")
                 ELSE M1
            ELSE IF user_id \in DOMAIN M1.favor_data
                 THEN _save_data([M1 EXCEPT !.favor_data[user_id].favor = 0], "favor_data")
                 ELSE M1
  IN IF removed_from_any_blacklist
     THEN reset_low_counter(M2, user_id, sid_counter_reset)
     ELSE M1

\* Mutant: the strike count must exceed the threshold, not reach it.
check_blacklist_condition_StrictlyAbove(M, user_id, favor_val, current_event_session_id, t) ==
  IF user_id = bot_self_id THEN M
  ELSE LET sid_for_counter == IF session_based_counter /\ current_event_session_id # None
                              THEN current_event_session_id ELSE None
           sid_for_blacklist == IF session_based_blacklist /\ current_event_session_id # None
                                THEN current_event_session_id ELSE None
       IN IF /\ favor_val <= black_favor_limit
             /\ get_low_counter(M, user_id, sid_for_counter) > black_threshold
             /\ ~is_blacklisted(M, user_id, sid_for_blacklist)
          THEN add_to_blacklist(M, user_id, sid_for_blacklist, TRUE, t)
          ELSE M

\* Mutant: the affinity is not compared with the trigger threshold.
check_blacklist_condition_IgnoresAffinity(M, user_id, favor_val, current_event_session_id, t) ==
  IF user_id = bot_self_id THEN M
  ELSE LET sid_for_counter == IF session_based_counter /\ current_event_session_id # None
                              THEN current_event_session_id ELSE None
           sid_for_blacklist == IF session_based_blacklist /\ current_event_session_id # None
                                THEN current_event_session_id ELSE None
       IN IF /\ get_low_counter(M, user_id, sid_for_counter) >= black_threshold
             /\ ~is_blacklisted(M, user_id, sid_for_blacklist)
          THEN add_to_blacklist(M, user_id, sid_for_blacklist, TRUE, t)
          ELSE M

_check_blacklist_condition(M, user_id, favor_val, current_event_session_id, t) ==
  IF user_id = bot_self_id THEN M
  ELSE LET sid_for_counter == IF session_based_counter /\ current_event_session_id # None
                              THEN current_event_session_id ELSE None
           sid_for_blacklist == IF session_based_blacklist /\ current_event_session_id # None
                                THEN current_event_session_id ELSE None
       IN IF /\ favor_val <= black_favor_limit
             /\ get_low_counter(M, user_id, sid_for_counter) >= black_threshold
             /\ ~is_blacklisted(M, user_id, sid_for_blacklist)
          THEN add_to_blacklist(M, user_id, sid_for_blacklist, TRUE, t)
          ELSE M

(***************************************************************************)
(* Affinity Ledger.                                                        *)
(***************************************************************************)
\* _get_favor_data_entry returns a reference to the record it found or made;
\* the model returns the manager after the lookup, and FavorOf reads the
\* record the reference points to.
\* Mutant: no guard for the agent's own id.
get_favor_data_entry_NoBotGuard(M, user_id, user_name, session_id_for_storage, current_event_session_id) ==
  LET effective_name == IF user_name # None /\ user_name # user_id
                        THEN user_name ELSE None
  IN IF session_based_favor /\ session_id_for_storage # None
     THEN LET s == session_id_for_storage
              row == Get(M.session_favor_data, s, EmptyDict)
              entry ==
                IF user_id \notin DOMAIN row
                THEN [name |-> IF effective_name # None THEN effective_name
                               ELSE DefaultName,
                      favor |-> 0]
                ELSE IF effective_name # None
                     THEN [row[user_id] EXCEPT !.name = effective_name]
                     ELSE row[user_id]
          IN [M EXCEPT !.session_favor_data = Put(@, s, Put(row, user_id, entry))]
     ELSE LET entry ==
                IF user_id \notin DOMAIN M.favor_data
                THEN [name |-> IF effective_name # None THEN effective_name
                               ELSE DefaultName,
                      favor |-> 0,
                      last_session_id |-> current_event_session_id]
                ELSE [M.favor_data[user_id] EXCEPT
                        !.name = IF effective_name # None THEN effective_name ELSE @,
                        !.last_session_id = current_event_session_id]
          IN [M EXCEPT !.favor_data = Put(@, user_id, entry)]

_get_favor_data_entry(M, user_id, user_name, session_id_for_storage, current_event_session_id) ==
  IF user_id = bot_self_id THEN M
  ELSE LET effective_name == IF user_name # None /\ user_name # user_id
                             THEN user_name ELSE None
       IN IF session_based_favor /\ session_id_for_storage # None
          THEN LET s == session_id_for_storage
                   row == Get(M.session_favor_data, s, EmptyDict)
                   entry ==
                     IF user_id \notin DOMAIN row
                     THEN [name |-> IF effective_name # None THEN effective_name
                                    ELSE DefaultName,
                           favor |-> 0]
                     ELSE IF effective_name # None
                          THEN [row[user_id] EXCEPT !.name = effective_name]
                          ELSE row[user_id]
               IN [M EXCEPT !.session_favor_data = Put(@, s, Put(row, user_id, entry))]
          ELSE LET entry ==
                     IF user_id \notin DOMAIN M.favor_data
                     THEN [name |-> IF effective_name # None THEN effective_name
                                    ELSE DefaultName,
                           favor |-> 0,
                           last_session_id |-> current_event_session_id]
                     ELSE [M.favor_data[user_id] EXCEPT
                             !.name = IF effective_name # None THEN effective_name ELSE @,
                             !.last_session_id = current_event_session_id]
               IN [M EXCEPT !.favor_data = Put(@, user_id, entry)]

get_favor_obj(M, user_id, user_name_hint, session_id_for_lookup, current_event_session_id_for_update) ==
  _get_favor_data_entry(M, user_id, user_name_hint, session_id_for_lookup,
                        current_event_session_id_for_update)

get_favor(M, user_id, session_id) ==
  IF user_id = bot_self_id THEN 0
  ELSE IF session_based_favor /\ session_id # None
       THEN LET row == Get(M.session_favor_data, session_id, EmptyDict)
            IN IF user_id \in DOMAIN row THEN row[user_id].favor ELSE 0
       ELSE IF user_id \in DOMAIN M.favor_data THEN M.favor_data[user_id].favor ELSE 0

\* favor_entry["favor"] = v, on the record _get_favor_data_entry returned for
\* the storage session s_id_favor_storage.
SetEntryFavor(M, user_id, s_id_favor_storage, v) ==
  IF session_based_favor /\ s_id_favor_storage # None
  THEN [M EXCEPT !.session_favor_data[s_id_favor_storage][user_id].favor = v]
  ELSE [M EXCEPT !.favor_data[user_id].favor = v]

\* The tags a response text may carry; a text is modelled by the set of the
\* recognised tags that occur in it.
Tags == {"big_up", "up", "big_down", "down"}
Texts == {{}, {"big_up"}, {"up"}, {"big_down"}, {"down"}, {"up", "down"}}

\* Mutant: the tags of decrease are looked for before the tags of increase.
calculate_favor_delta_DecreaseFirst(change) ==
  IF "big_down" \in change THEN {-d : d \in 5..15}
  ELSE IF "down" \in change THEN {-d : d \in 1..5}
  ELSE IF "big_up" \in change THEN 5..10
  ELSE IF "up" \in change THEN 1..5
  ELSE {}

\* The values _calculate_favor_delta may return for a text: the range of the
\* random draw of the first tag found, and no value (None) when there is none.
_calculate_favor_delta(change) ==
  IF "big_up" \in change THEN 5..10
  ELSE IF "up" \in change THEN 1..5
  ELSE IF "big_down" \in change THEN {-d : d \in 5..15}
  ELSE IF "down" \in change THEN {-d : d \in 1..5}
  ELSE {}

\* Mutant: the new affinity is clamped at the maximum only.
ApplyDelta_NoLowerClamp(M, user_id, user_name, delta, current_event_session_id, t) ==
  LET s_id_favor_storage == IF session_based_favor THEN current_event_session_id ELSE None
      M1 == _get_favor_data_entry(M, user_id, user_name, s_id_favor_storage,
                                  current_event_session_id)
      current_favor == get_favor(M1, user_id, s_id_favor_storage)
      new_favor == Min(max_favor_value, current_favor + delta)
      M2 == SetEntryFavor(M1, user_id, s_id_favor_storage, new_favor)
      M3 == IF session_based_favor THEN _save_data(M2, "session_favor_data")
            ELSE _save_data(M2, "favor_data")
      M4 == IF delta < 0 /\ new_favor <= black_favor_limit
            THEN increment_low_counter(M3, user_id,
                   IF session_based_counter THEN current_event_session_id ELSE None)
            ELSE M3
  IN _check_blacklist_condition(M4, user_id, new_favor, current_event_session_id, t)

\* Mutant: a strike is recorded only when the stored affinity went down.
ApplyDelta_StrikeOnlyOnDrop(M, user_id, user_name, delta, current_event_session_id, t) ==
  LET s_id_favor_storage == IF session_based_favor THEN current_event_session_id ELSE None
      M1 == _get_favor_data_entry(M, user_id, user_name, s_id_favor_storage,
                                  current_event_session_id)
      current_favor == get_favor(M1, user_id, s_id_favor_storage)
      new_favor == Max(min_favor_value, Min(max_favor_value, current_favor + delta))
      M2 == SetEntryFavor(M1, user_id, s_id_favor_storage, new_favor)
      M3 == IF session_based_favor THEN _save_data(M2, "session_favor_data")
            ELSE _save_data(M2, "favor_data")
      M4 == IF new_favor < current_favor /\ new_favor <= black_favor_limit
            THEN increment_low_counter(M3, user_id,
                   IF session_based_counter THEN current_event_session_id ELSE None)
            ELSE M3
  IN _check_blacklist_condition(M4, user_id, new_favor, current_event_session_id, t)

\* update_favor after _calculate_favor_delta returned delta.
ApplyDelta(M, user_id, user_name, delta, current_event_session_id, t) ==
  LET s_id_favor_storage == IF session_based_favor THEN current_event_session_id ELSE None
      M1 == _get_favor_data_entry(M, user_id, user_name, s_id_favor_storage,
                                  current_event_session_id)
      current_favor == get_favor(M1, user_id, s_id_favor_storage)
      new_favor == Max(min_favor_value, Min(max_favor_value, current_favor + delta))
      M2 == SetEntryFavor(M1, user_id, s_id_favor_storage, new_favor)
      M3 == IF session_based_favor THEN _save_data(M2, "session_favor_data")
            ELSE _save_data(M2, "favor_data")
      M4 == IF delta < 0 /\ new_favor <= black_favor_limit
            THEN increment_low_counter(M3, user_id,
                   IF session_based_counter THEN current_event_session_id ELSE None)
            ELSE M3
  IN _check_blacklist_condition(M4, user_id, new_favor, current_event_session_id, t)

\* Mutant: the whitelist is not consulted.
update_favor_IgnoresWhitelist(M, user_id, user_name, change_text, current_event_session_id, t) ==
  IF user_id = bot_self_id THEN {M}
  ELSE IF _calculate_favor_delta(change_text) = {} THEN {M}
  ELSE { ApplyDelta(M, user_id, user_name, delta, current_event_session_id, t) :
           delta \in _calculate_favor_delta(change_text) }

\* Mutant: the record is resolved before the text is looked at.
update_favor_ResolvesFirst(M, user_id, user_name, change_text, current_event_session_id, t) ==
  IF user_id = bot_self_id THEN {M}
  ELSE IF user_id \in DOMAIN M.whitelist THEN {M}
  ELSE IF _calculate_favor_delta(change_text) = {}
       THEN {_get_favor_data_entry(M, user_id, user_name,
                                   IF session_based_favor THEN current_event_session_id
                                   ELSE None,
                                   current_event_session_id)}
  ELSE { ApplyDelta(M, user_id, user_name, delta, current_event_session_id, t) :
           delta \in _calculate_favor_delta(change_text) }

\* update_favor: the set of managers it may leave, one per value the random
\* draw may take.
update_favor(M, user_id, user_name, change_text, current_event_session_id, t) ==
  IF user_id = bot_self_id THEN {M}
  ELSE IF user_id \in DOMAIN M.whitelist THEN {M}
  ELSE IF _calculate_favor_delta(change_text) = {} THEN {M}
  ELSE { ApplyDelta(M, user_id, user_name, delta, current_event_session_id, t) :
           delta \in _calculate_favor_delta(change_text) }

\* Mutant: the override skips whitelisted users, as update_favor does.
set_favor_admin_RespectsWhitelist(M, user_id, user_name_hint, favor_value, current_event_session_id) ==
  IF user_id = bot_self_id THEN M
  ELSE IF user_id \in DOMAIN M.whitelist THEN M
  ELSE LET clamped_val == Max(min_favor_value, Min(max_favor_value, favor_value))
           s_id_favor_storage == IF session_based_favor THEN current_event_session_id
                                 ELSE None
           M1 == _get_favor_data_entry(M, user_id, user_name_hint, s_id_favor_storage,
                                       current_event_session_id)
           M2 == SetEntryFavor(M1, user_id, s_id_favor_storage, clamped_val)
       IN IF session_based_favor THEN _save_data(M2, "session_favor_data")
          ELSE _save_data(M2, "favor_data")

set_favor_admin(M, user_id, user_name_hint, favor_value, current_event_session_id) ==
  IF user_id = bot_self_id THEN M
  ELSE LET clamped_val == Max(min_favor_value, Min(max_favor_value, favor_value))
           s_id_favor_storage == IF session_based_favor THEN current_event_session_id
                                 ELSE None
           M1 == _get_favor_data_entry(M, user_id, user_name_hint, s_id_favor_storage,
                                       current_event_session_id)
           M2 == SetEntryFavor(M1, user_id, s_id_favor_storage, clamped_val)
       IN IF session_based_favor THEN _save_data(M2, "session_favor_data")
          ELSE _save_data(M2, "favor_data")

(***************************************************************************)
(* Maintenance sweeps, run by _init_data.                                  *)
(***************************************************************************)
\* Mutant: the sweep does not look at how the entry was added.
Expired_IgnoresOrigin(data, current_time) ==
  (current_time - data.timestamp) >= auto_remove_hours * 3600

Expired(data, current_time) ==
  data.auto_added /\ (current_time - data.timestamp) >= auto_remove_hours * 3600

\* Mutant: the global half keeps the strike counter of the user it unlists.
AutoRemovalGlobal_KeepsCounter(M, current_time) ==
  LET g_removed_uids == {uid \in DOMAIN M.blacklist : Expired(M.blacklist[uid], current_time)}
      gone == g_removed_uids \ {bot_self_id}
      M1 == [M EXCEPT
               !.blacklist = [uid \in (DOMAIN @) \ gone |-> @[uid]],
               !.favor_data = [uid \in DOMAIN @ |->
                                 IF uid \in gone THEN [@[uid] EXCEPT !.favor = 0]
                                 ELSE @[uid]]]
  IN IF g_removed_uids = {} THEN M
     ELSE _save_data(_save_data(_save_data(M1, "blacklist"), "low_counter"), "favor_data")

\* The global half of _check_auto_removal.
AutoRemovalGlobal(M, current_time) ==
  LET g_removed_uids == {uid \in DOMAIN M.blacklist : Expired(M.blacklist[uid], current_time)}
      gone == g_removed_uids \ {bot_self_id}
      M1 == [M EXCEPT
               !.blacklist = [uid \in (DOMAIN @) \ gone |-> @[uid]],
               !.low_counter = [uid \in (DOMAIN @) \ gone |-> @[uid]],
               !.favor_data = [uid \in DOMAIN @ |->
                                 IF uid \in gone THEN [@[uid] EXCEPT !.favor = 0]
                                 ELSE @[uid]]]
  IN IF g_removed_uids = {} THEN M
     ELSE _save_data(_save_data(_save_data(M1, "blacklist"), "low_counter"), "favor_data")

\* The session half of _check_auto_removal.
AutoRemovalSession(M, current_time) ==
  LET s_removed_uids(sid) ==
        {uid \in DOMAIN M.session_blacklist[sid] :
           Expired(M.session_blacklist[sid][uid], current_time)}
      gone(sid) == IF sid \in DOMAIN M.session_blacklist
                   THEN s_removed_uids(sid) \ {bot_self_id} ELSE {}
      s_changed == \E sid \in DOMAIN M.session_blacklist : s_removed_uids(sid) # {}
      s_data(sid) == [uid \in (DOMAIN M.session_blacklist[sid]) \ gone(sid) |->
                        M.session_blacklist[sid][uid]]
      c_row(sid) == [uid \in (DOMAIN M.session_low_counter[sid]) \ gone(sid) |->
                       M.session_low_counter[sid][uid]]
      c_keep == {sid \in DOMAIN M.session_low_counter :
                   \/ DOMAIN c_row(sid) # {}
                   \/ DOMAIN c_row(sid) = DOMAIN M.session_low_counter[sid]}
      M1 == [M EXCEPT
               !.session_blacklist =
                 [sid \in {x \in DOMAIN @ : DOMAIN s_data(x) # {}} |-> s_data(sid)],
               !.session_favor_data =
                 IF session_based_favor
                 THEN [sid \in DOMAIN @ |->
                         [uid \in DOMAIN @[sid] |->
                            IF uid \in gone(sid) THEN [@[sid][uid] EXCEPT !.favor = 0]
                            ELSE @[sid][uid]]]
                 ELSE @,
               !.session_low_counter =
                 IF session_based_counter
                 THEN [sid \in c_keep |-> c_row(sid)]
                 ELSE @]
      M2 == _save_data(M1, "session_blacklist")
      M3 == IF session_based_favor THEN _save_data(M2, "session_favor_data") ELSE M2
      M4 == IF session_based_counter THEN _save_data(M3, "session_low_counter") ELSE M3
  IN IF s_changed THEN M4 ELSE M1

_check_auto_removal(M, current_time) ==
  IF ~auto_remove_enabled THEN M
  ELSE LET M1 == AutoRemovalGlobal(M, current_time)
       IN IF session_based_blacklist THEN AutoRemovalSession(M1, current_time) ELSE M1

\* The key of a session-scoped counter in last_decrease_time: f"{sid}_{uid}".
CompositeKey(sid, uid) == sid \o "_" \o uid

\* Mutant: a counter with no recorded time of last decrease is not due.
Due_MissingIsFresh(ct, last, k, current_time) == ct > 0 /\ k \in DOMAIN last /\ (current_time - last[k]) >= auto_decrease_hours * 3600

\* Mutant: a counter decays at every sweep, whatever the time since the last.
Due_IgnoresInterval(ct, last, k, current_time) == ct > 0

Due(ct, last, k, current_time) ==
  ct > 0 /\ (current_time - Get(last, k, 0)) >= auto_decrease_hours * 3600

\* Mutant: a counter that decays to 0 is stored as 0.
AutoDecreaseGlobal_KeepsZero(M, current_time) ==
  LET due == {uid \in DOMAIN M.low_counter :
                Due(M.low_counter[uid], M.last_decrease_time, uid, current_time)}
      nc(uid) == Max(0, M.low_counter[uid] - auto_decrease_amount)
      M1 == [M EXCEPT
               !.low_counter =
                 [uid \in DOMAIN @ |-> IF uid \in due THEN nc(uid) ELSE @[uid]],
               !.last_decrease_time =
                 [k \in (DOMAIN @) \cup due |-> IF k \in due THEN current_time ELSE @[k]]]
  IN IF due = {} THEN M
     ELSE _save_data(_save_data(M1, "low_counter"), "last_decrease_time")

\* The global half of _check_auto_decrease.
AutoDecreaseGlobal(M, current_time) ==
  LET due == {uid \in DOMAIN M.low_counter :
                Due(M.low_counter[uid], M.last_decrease_time, uid, current_time)}
      nc(uid) == Max(0, M.low_counter[uid] - auto_decrease_amount)
      M1 == [M EXCEPT
               !.low_counter =
                 [uid \in {x \in DOMAIN @ : x \notin due \/ nc(x) # 0} |->
                    IF uid \in due THEN nc(uid) ELSE @[uid]],
               !.last_decrease_time =
                 [k \in (DOMAIN @) \cup due |-> IF k \in due THEN current_time ELSE @[k]]]
  IN IF due = {} THEN M
     ELSE _save_data(_save_data(M1, "low_counter"), "last_decrease_time")

\* The session half of _check_auto_decrease.
AutoDecreaseSession(M, current_time) ==
  LET pairs == UNION {{<<sid, uid>> : uid \in DOMAIN M.session_low_counter[sid]} :
                        sid \in DOMAIN M.session_low_counter}
      due == {p \in pairs :
                Due(M.session_low_counter[p[1]][p[2]], M.last_decrease_time,
                    CompositeKey(p[1], p[2]), current_time)}
      nc(p) == Max(0, M.session_low_counter[p[1]][p[2]] - auto_decrease_amount)
      s_dat(sid) ==
        [uid \in {x \in DOMAIN M.session_low_counter[sid] :
                    <<sid, x>> \notin due \/ nc(<<sid, x>>) # 0} |->
           IF <<sid, uid>> \in due THEN nc(<<sid, uid>>)
           ELSE M.session_low_counter[sid][uid]]
      due_keys == {CompositeKey(p[1], p[2]) : p \in due}
      M1 == [M EXCEPT
               !.session_low_counter =
                 [sid \in {x \in DOMAIN @ : DOMAIN s_dat(x) # {}} |-> s_dat(sid)],
               !.last_decrease_time =
                 [k \in (DOMAIN @) \cup due_keys |->
                    IF k \in due_keys THEN current_time ELSE @[k]]]
  IN IF due = {} THEN M1
     ELSE _save_data(_save_data(M1, "session_low_counter"), "last_decrease_time")

_check_auto_decrease(M, current_time) ==
  IF ~auto_decrease_enabled THEN M
  ELSE LET M1 == AutoDecreaseGlobal(M, current_time)
       IN IF session_based_counter THEN AutoDecreaseSession(M1, current_time) ELSE M1

\* _load_data: {} when the path does not exist or json.load raises
\* JSONDecodeError, which is caught; the data of a JSON object; and for JSON
\* that is not an object the call of .items() raises AttributeError, which the
\* except clause (JSONDecodeError, TypeError) does not catch.
_load_data(content) ==
  IF content.kind = "absent" THEN [raised |-> FALSE, data |-> EmptyDict]
  ELSE IF content.kind = "unparseable" THEN [raised |-> FALSE, data |-> EmptyDict]
  ELSE IF content.kind = "not_mapping" THEN [raised |-> TRUE]
  ELSE [raised |-> FALSE, data |-> content.data]

\* Whether one of the ten _load_data calls of _init_data raises.
LoadRaises(files) == \E f \in StoreNames : _load_data(files[f]).raised

\* The manager _init_data has after its _load_data calls, when none raised:
\* every store holds what _load_data returned for its file.
LoadAll(files) ==
  [f \in StoreNames \cup {"disk"} |->
     IF f = "disk" THEN files ELSE _load_data(files[f]).data]

\* Mutant: the decay sweep runs before the expiry sweep.
init_data_DecayFirst(files, current_time) ==
  _check_auto_removal(_check_auto_decrease(LoadAll(files), current_time), current_time)

\* _init_data: every store is loaded from its file, then the two sweeps run.
_init_data(files, current_time) ==
  _check_auto_decrease(_check_auto_removal(LoadAll(files), current_time), current_time)

\* terminate: every store is saved.
terminate(M) == [M EXCEPT !.disk = [f \in StoreNames |-> File(M[f])]]

(***************************************************************************)
(* The tier functions.  The texts are the source's, in English: the       *)
(* description is the sentence put into the system prompt and the label   *)
(* the word shown by the queries.                                         *)
(***************************************************************************)
\* Mutant: the first boundary is one too high, -50 falls into the lowest band.
get_favor_level_WrongBoundary(v) ==
  IF v <= -50 THEN "relationship: extreme dislike"
  ELSE IF -50 <= v /\ v <= -21 THEN "relationship: aversion"
  ELSE IF -20 <= v /\ v <= -1 THEN "relationship: displeasure"
  ELSE IF 0 <= v /\ v <= 49 THEN "relationship: neutral"
  ELSE IF 50 <= v /\ v <= 99 THEN "relationship: friendly"
  ELSE IF 100 <= v /\ v <= 149 THEN "relationship: close"
  ELSE IF 150 <= v /\ v <= 998 THEN "relationship: fond"
  ELSE "relationship: devoted"

get_favor_level(v) ==
  IF v <= -51 THEN "relationship: extreme dislike"
  ELSE IF -50 <= v /\ v <= -21 THEN "relationship: aversion"
  ELSE IF -20 <= v /\ v <= -1 THEN "relationship: displeasure"
  ELSE IF 0 <= v /\ v <= 49 THEN "relationship: neutral"
  ELSE IF 50 <= v /\ v <= 99 THEN "relationship: friendly"
  ELSE IF 100 <= v /\ v <= 149 THEN "relationship: close"
  ELSE IF 150 <= v /\ v <= 998 THEN "relationship: fond"
  ELSE "relationship: devoted"

get_favor_levell(v) ==
  IF v <= -51 THEN "extreme dislike"
  ELSE IF -50 <= v /\ v <= -21 THEN "aversion"
  ELSE IF -20 <= v /\ v <= -1 THEN "displeasure"
  ELSE IF 0 <= v /\ v <= 49 THEN "neutral"
  ELSE IF 50 <= v /\ v <= 99 THEN "friendly"
  ELSE IF 100 <= v /\ v <= 149 THEN "close"
  ELSE IF 150 <= v /\ v <= 998 THEN "fond"
  ELSE "devoted"

(***************************************************************************)
(* The state machine.                                                      *)
(***************************************************************************)
\* The slots of the requests in flight, and the state in which none is.
Requests == 1 .. MaxInFlight
Idle == [phase |-> "idle"]
NoBurst == [burst |-> "none"]
NoneInFlight ==
  /\ inflight = [r \in Requests |-> Idle]
  /\ loop = 0
  /\ origin = NoBurst

\* _calculate_favor_delta was not called: there is no result for the text.
NotCalled == [returned |-> "nothing yet"]
NoDraw ==
  /\ completion_text = {}
  /\ returned_delta = NotCalled

\* _init_config has read the affinity range and the decay parameters.
ConfigRead ==
  /\ min_favor_value = config_min_favor_value
  /\ max_favor_value = config_max_favor_value
  /\ auto_decrease_enabled = config_auto_decrease_counter
  /\ auto_decrease_hours = config_auto_decrease_counter_hours
  /\ auto_decrease_amount = config_auto_decrease_counter_amount

Init ==
  /\ ConfigRead
  /\ favor_data = EmptyDict /\ session_favor_data = EmptyDict
  /\ blacklist = EmptyDict /\ session_blacklist = EmptyDict
  /\ whitelist = EmptyDict
  /\ low_counter = EmptyDict /\ session_low_counter = EmptyDict
  /\ last_decrease_time = EmptyDict
  /\ blacklist_counts = EmptyDict /\ session_blacklist_counts = EmptyDict
  /\ disk = EmptyStores
  /\ session_based_favor \in BOOLEAN
  /\ session_based_blacklist \in BOOLEAN
  /\ session_based_counter \in BOOLEAN
  /\ now = StartTime
  /\ umos = {"g1"}
  /\ process = "running"
  /\ value = 0 /\ level = None /\ levell = None
  /\ NoneInFlight
  /\ NoDraw

\* The counters that grow without bound stay within the bounds of the model.
WithinBounds(R) ==
  /\ \A u \in DOMAIN R.low_counter : R.low_counter[u] <= MaxStrike
  /\ \A s \in DOMAIN R.session_low_counter :
       \A u \in DOMAIN R.session_low_counter[s] : R.session_low_counter[s][u] <= MaxStrike
  /\ \A u \in DOMAIN R.blacklist_counts : R.blacklist_counts[u] <= MaxCount
  /\ \A s \in DOMAIN R.session_blacklist_counts :
       \A u \in DOMAIN R.session_blacklist_counts[s] :
         R.session_blacklist_counts[s][u] <= MaxCount

Commit(R) ==
  /\ WithinBounds(R)
  /\ favor_data' = R.favor_data
  /\ session_favor_data' = R.session_favor_data
  /\ blacklist' = R.blacklist
  /\ session_blacklist' = R.session_blacklist
  /\ whitelist' = R.whitelist
  /\ low_counter' = R.low_counter
  /\ session_low_counter' = R.session_low_counter
  /\ last_decrease_time' = R.last_decrease_time
  /\ blacklist_counts' = R.blacklist_counts
  /\ session_blacklist_counts' = R.session_blacklist_counts
  /\ disk' = R.disk

\* The session arguments the handlers derive from the UMO of the event.
SidFavor(umo) == IF session_based_favor THEN umo ELSE None
SidBlacklist(umo) == IF session_based_blacklist THEN umo ELSE None
SidCounter(umo) == IF session_based_counter THEN umo ELSE None

\* Whether a text draws a negative delta, a positive one, or none.
DeltaSign(change_text) ==
  IF _calculate_favor_delta(change_text) = {} THEN "none"
  ELSE IF \A d \in _calculate_favor_delta(change_text) : d < 0 THEN "neg" ELSE "pos"

\* The record get_favor_obj returned, a record with _is_bot for the bot.
FavorObj(M, user_id, session_id) ==
  IF user_id = bot_self_id THEN [favor |-> 0, _is_bot |-> TRUE]
  ELSE IF session_based_favor /\ session_id # None
       THEN M.session_favor_data[session_id][user_id]
       ELSE M.favor_data[user_id]

\* Mutant: the blacklist is asked with the session argument of the affinity.
handle_llm_request_favor_WrongSession(M, user_id, user_name, current_umo) ==
  LET M1 == get_favor_obj(M, user_id, user_name, SidFavor(current_umo), current_umo)
      s_id_favor == SidFavor(current_umo)
      stopped == is_blacklisted(M1, user_id, s_id_favor)
      M2 == IF stopped THEN M1
            ELSE get_favor_obj(M1, user_id, user_name, s_id_favor, current_umo)
      favor_obj_for_prompt == FavorObj(M2, user_id, s_id_favor)
      favor_value == IF "_is_bot" \in DOMAIN favor_obj_for_prompt THEN 0
                     ELSE favor_obj_for_prompt.favor
  IN [M |-> M2,
      stopped |-> stopped,
      relationship_desc |-> IF stopped THEN None ELSE get_favor_level(favor_value)]

\* handle_llm_request_favor: the manager it leaves, whether it stopped the
\* event, and the description it puts in front of the system prompt.
handle_llm_request_favor(M, user_id, user_name, current_umo) ==
  LET M1 == get_favor_obj(M, user_id, user_name, SidFavor(current_umo), current_umo)
      s_id_favor == SidFavor(current_umo)
      s_id_blacklist == SidBlacklist(current_umo)
      stopped == is_blacklisted(M1, user_id, s_id_blacklist)
      M2 == IF stopped THEN M1
            ELSE get_favor_obj(M1, user_id, user_name, s_id_favor, current_umo)
      favor_obj_for_prompt == FavorObj(M2, user_id, s_id_favor)
      favor_value == IF "_is_bot" \in DOMAIN favor_obj_for_prompt THEN 0
                     ELSE favor_obj_for_prompt.favor
  IN [M |-> M2,
      stopped |-> stopped,
      relationship_desc |-> IF stopped THEN None ELSE get_favor_level(favor_value)]

\* handle_llm_request_favor
OnLLMRequest(user_id, user_name, current_umo) ==
  /\ process = "running"
  /\ Commit(handle_llm_request_favor(Mgr, user_id, user_name, current_umo).M)
  /\ UNCHANGED << config, now, umos, draw, process, tier, conc >>

\* on_llm_resp_favor
OnLLMResponse(user_id, user_name, original_text, current_umo) ==
  /\ process = "running"
  /\ \E R \in update_favor(Mgr, user_id, user_name, original_text, current_umo, now) :
       Commit(R)
  /\ UNCHANGED << config, now, umos, draw, process, tier, conc >>

\* The name of the record get_favor_obj returned.
EntryName(M, user_id, session_id) ==
  IF session_based_favor /\ session_id # None
  THEN M.session_favor_data[session_id][user_id].name
  ELSE M.favor_data[user_id].name

\* admin_control, cmd "好感度" with a target and a value
AdminSetFavor(target_id, val_int, current_event_umo) ==
  LET M1 == get_favor_obj(Mgr, target_id, None, SidFavor(current_event_umo),
                          current_event_umo)
      user_name_hint_for_set ==
        IF EntryName(M1, target_id, SidFavor(current_event_umo)) # DefaultName
        THEN EntryName(M1, target_id, SidFavor(current_event_umo))
        ELSE DefaultName
      M2 == set_favor_admin(M1, target_id, user_name_hint_for_set, val_int,
                            current_event_umo)
      M3 == get_favor_obj(M2, target_id, user_name_hint_for_set,
                          SidFavor(current_event_umo), current_event_umo)
  IN /\ process = "running"
     /\ IF target_id = bot_self_id THEN Commit(Mgr) ELSE Commit(M3)
     /\ UNCHANGED << config, now, umos, draw, process, tier, conc >>

\* admin_control, cmd "黑名单" with a target
AdminBlacklistAdd(target_id, current_event_umo) ==
  LET M1 == get_favor_obj(Mgr, target_id, None, SidFavor(current_event_umo),
                          current_event_umo)
      listed == is_blacklisted(M1, target_id, SidBlacklist(current_event_umo))
      M2 == IF listed THEN M1
            ELSE add_to_blacklist(M1, target_id, SidBlacklist(current_event_umo),
                                  FALSE, now)
  IN /\ process = "running"
     /\ IF target_id = bot_self_id THEN Commit(Mgr) ELSE Commit(M2)
     /\ UNCHANGED << config, now, umos, draw, process, tier, conc >>

\* admin_control, cmd "移出黑名单"
AdminBlacklistRemove(target_id, current_event_umo) ==
  LET M1 == get_favor_obj(Mgr, target_id, None, SidFavor(current_event_umo),
                          current_event_umo)
      listed == is_blacklisted(M1, target_id, SidBlacklist(current_event_umo))
      M2 == IF listed
            THEN remove_from_blacklist(M1, target_id, SidBlacklist(current_event_umo))
            ELSE M1
  IN /\ process = "running"
     /\ Commit(M2)
     /\ UNCHANGED << config, now, umos, draw, process, tier, conc >>

\* Mutant: a user who is put on the whitelist is taken off the blacklist.
AdminWhitelistAdd_ClearsBlacklist(target_id, current_event_umo) ==
  LET M1 == get_favor_obj(Mgr, target_id, None, SidFavor(current_event_umo),
                          current_event_umo)
      M2 == IF target_id \in DOMAIN M1.whitelist THEN M1
            ELSE _save_data([M1 EXCEPT !.whitelist = Put(@, target_id, TRUE)], "whitelist")
      M3 == remove_from_blacklist(M2, target_id, SidBlacklist(current_event_umo))
  IN /\ process = "running"
     /\ IF target_id = bot_self_id THEN Commit(Mgr) ELSE Commit(M3)
     /\ UNCHANGED << config, now, umos, draw, process, tier, conc >>

\* admin_control, cmd "白名单" with a target
AdminWhitelistAdd(target_id, current_event_umo) ==
  LET M1 == get_favor_obj(Mgr, target_id, None, SidFavor(current_event_umo),
                          current_event_umo)
      M2 == IF target_id \in DOMAIN M1.whitelist THEN M1
            ELSE _save_data([M1 EXCEPT !.whitelist = Put(@, target_id, TRUE)], "whitelist")
  IN /\ process = "running"
     /\ IF target_id = bot_self_id THEN Commit(Mgr) ELSE Commit(M2)
     /\ UNCHANGED << config, now, umos, draw, process, tier, conc >>

\* admin_control, cmd "移出白名单"
AdminWhitelistRemove(target_id, current_event_umo) ==
  LET M1 == get_favor_obj(Mgr, target_id, None, SidFavor(current_event_umo),
                          current_event_umo)
      M2 == IF target_id \notin DOMAIN M1.whitelist THEN M1
            ELSE _save_data([M1 EXCEPT !.whitelist = Del(@, target_id)], "whitelist")
  IN /\ process = "running"
     /\ Commit(M2)
     /\ UNCHANGED << config, now, umos, draw, process, tier, conc >>

(***************************************************************************)
(* The queries.  A UMO is "platform:message type:session id": g1 stands   *)
(* for the group chat "platform:GroupMessage:g1" and p1 for the private   *)
(* chat with u1, "platform:PrivateMessage:u1".                            *)
(***************************************************************************)
msg_type(umo) == IF umo = "g1" THEN "GroupMessage" ELSE "PrivateMessage"
session_actual_id(umo) == IF umo = "g1" THEN "g1" ELSE "u1"
\* event.get_group_id(): empty in a private chat.
get_group_id(umo) == IF msg_type(umo) = "GroupMessage" THEN session_actual_id(umo) ELSE None

\* _get_session_display_name: the manager it leaves.  For a private chat it
\* resolves the record of the peer with no storage session.
_get_session_display_name(M, umo) ==
  IF msg_type(umo) = "GroupMessage" THEN M
  ELSE get_favor_obj(M, session_actual_id(umo), None, None, umo)

\* The loop of _generate_blacklist_count_ranking_list over a flat map: one
\* get_favor_obj per key, in any order (the calls are about different users).
RECURSIVE _generate_blacklist_count_ranking_list(_, _, _)
_generate_blacklist_count_ranking_list(M, raw_count_data, current_event_umo_for_name_lookup) ==
  IF raw_count_data = {} THEN M
  ELSE LET key == CHOOSE k \in raw_count_data : TRUE
       IN _generate_blacklist_count_ranking_list(
            get_favor_obj(M, key, None, SidFavor(current_event_umo_for_name_lookup),
                          current_event_umo_for_name_lookup),
            raw_count_data \ {key}, current_event_umo_for_name_lookup)

\* query_favor for the user the command is about
QueryFavor(final_query_user_id, final_query_user_name_hint, current_umo) ==
  /\ process = "running"
  /\ final_query_user_id # bot_self_id
  /\ Commit(get_favor_obj(Mgr, final_query_user_id, final_query_user_name_hint,
                          SidFavor(current_umo), current_umo))
  /\ UNCHANGED << config, now, umos, draw, process, tier, conc >>

\* The users group_favor_ranking (for_dislike FALSE) and group_dislike_ranking
\* (for_dislike TRUE) rank in the session of the event.
GroupRanked(M, current_event_umo, for_dislike) ==
  IF session_based_favor
  THEN {uid \in DOMAIN Get(M.session_favor_data, current_event_umo, EmptyDict) :
          /\ uid # bot_self_id
          /\ for_dislike => M.session_favor_data[current_event_umo][uid].favor < 0}
  ELSE IF get_group_id(current_event_umo) = None THEN {}
  ELSE {uid \in DOMAIN M.favor_data :
          /\ uid # bot_self_id
          /\ for_dislike => M.favor_data[uid].favor < 0
          /\ get_group_id(M.favor_data[uid].last_session_id)
               = get_group_id(current_event_umo)}

\* group_favor_ranking
GroupFavorRanking(current_event_umo) ==
  /\ process = "running"
  /\ Commit(IF GroupRanked(Mgr, current_event_umo, FALSE) = {} THEN Mgr
            ELSE _get_session_display_name(Mgr, current_event_umo))
  /\ UNCHANGED << config, now, umos, draw, process, tier, conc >>

\* group_dislike_ranking
GroupDislikeRanking(current_event_umo) ==
  /\ process = "running"
  /\ Commit(IF GroupRanked(Mgr, current_event_umo, TRUE) = {} THEN Mgr
            ELSE _get_session_display_name(Mgr, current_event_umo))
  /\ UNCHANGED << config, now, umos, draw, process, tier, conc >>

\* The keys of the count map group_blacklist_ranking ranks.
GroupCounted(M, current_event_umo) ==
  IF session_based_blacklist
  THEN LET session_counts_map == Get(M.session_blacklist_counts, current_event_umo, EmptyDict)
       IN IF \A uid \in DOMAIN session_counts_map :
               uid = bot_self_id \/ session_counts_map[uid] = 0
          THEN {} ELSE DOMAIN session_counts_map
  ELSE IF get_group_id(current_event_umo) = None THEN {}
  ELSE {user_id \in DOMAIN M.favor_data :
          /\ user_id # bot_self_id
          /\ msg_type(M.favor_data[user_id].last_session_id) = "GroupMessage"
          /\ session_actual_id(M.favor_data[user_id].last_session_id)
               = get_group_id(current_event_umo)
          /\ Get(M.blacklist_counts, user_id, 0) > 0}

\* group_blacklist_ranking
GroupBlacklistRanking(current_event_umo) ==
  /\ process = "running"
  /\ Commit(IF GroupCounted(Mgr, current_event_umo) = {} THEN Mgr
            ELSE _generate_blacklist_count_ranking_list(
                   _get_session_display_name(Mgr, current_event_umo),
                   GroupCounted(Mgr, current_event_umo), current_event_umo))
  /\ UNCHANGED << config, now, umos, draw, process, tier, conc >>

\* The sessions in which user_id has a blacklist count other than 0.
CountedIn(M, user_id) ==
  {umo \in DOMAIN M.session_blacklist_counts :
     /\ user_id \in DOMAIN M.session_blacklist_counts[umo]
     /\ M.session_blacklist_counts[umo][user_id] # 0}

\* The first loop of global_blacklist_ranking over the session counts: for
\* every user, get_favor_obj with the first session that counts the user, which
\* is any of them here; the managers it may leave.
RECURSIVE FirstEncounters(_, _, _)
FirstEncounters(Ms, user_ids, current_event_umo) ==
  IF user_ids = {} THEN Ms
  ELSE LET user_id == CHOOSE u \in user_ids : TRUE
       IN FirstEncounters(
            UNION {{get_favor_obj(M, user_id, None, umo, current_event_umo) :
                      umo \in CountedIn(M, user_id)} : M \in Ms},
            user_ids \ {user_id}, current_event_umo)

\* global_blacklist_ranking
GlobalBlacklistRanking(current_event_umo) ==
  /\ process = "running"
  /\ IF session_based_blacklist
     THEN LET aggregated_global_counts ==
                {u \in Users \ {bot_self_id} : CountedIn(Mgr, u) # {}}
          IN \E M \in FirstEncounters({Mgr}, aggregated_global_counts, current_event_umo) :
               Commit(_generate_blacklist_count_ranking_list(
                        M, aggregated_global_counts, current_event_umo))
     ELSE Commit(IF \A uid \in DOMAIN blacklist_counts :
                      uid = bot_self_id \/ blacklist_counts[uid] = 0
                 THEN Mgr
                 ELSE _generate_blacklist_count_ranking_list(
                        Mgr, DOMAIN blacklist_counts, current_event_umo))
  /\ UNCHANGED << config, now, umos, draw, process, tier, conc >>

\* The loop of global_favor_ranking: one _get_session_display_name per session
\* in umos_left.  With the identifiers of this model the peer of a private
\* chat has a record whenever a record names that chat, so that no call
\* inserts into the dict the loop iterates.
RECURSIVE SessionDisplays(_, _)
SessionDisplays(M, umos_left) ==
  IF umos_left = {} THEN M
  ELSE LET umo == CHOOSE x \in umos_left : TRUE
       IN SessionDisplays(_get_session_display_name(M, umo), umos_left \ {umo})

\* global_favor_ranking
GlobalFavorRanking ==
  /\ process = "running"
  /\ Commit(IF session_based_favor
            THEN SessionDisplays(Mgr, DOMAIN session_favor_data)
            ELSE SessionDisplays(Mgr, {favor_data[user_id].last_session_id :
                                         user_id \in (DOMAIN favor_data) \ {bot_self_id}}))
  /\ UNCHANGED << config, now, umos, draw, process, tier, conc >>

\* global_dislike_ranking: it reads the affinity table of the mode.
GlobalDislikeRanking ==
  /\ process = "running"
  /\ Commit(Mgr)
  /\ UNCHANGED << config, now, umos, draw, process, tier, conc >>

\* An hour of wall-clock time passes.
Tick ==
  /\ now < StartTime + MaxTicks * 3600
  /\ now' = now + 3600
  /\ UNCHANGED << stores, disk, config, umos, draw, process, tier, conc >>

\* The plugin is terminated and a new process constructs the manager.
Restart ==
  /\ process = "running"
  /\ ~LoadRaises(terminate(Mgr).disk)
  /\ Commit(_init_data(terminate(Mgr).disk, now))
  /\ UNCHANGED << config, now, umos, draw, process, tier, conc >>

\* The process dies without terminate and a new one constructs the manager.
CrashRestart ==
  /\ process = "running"
  /\ ~LoadRaises(disk)
  /\ Commit(_init_data(disk, now))
  /\ UNCHANGED << config, now, umos, draw, process, tier, conc >>

AdminValues == (min_favor_value - 1) .. (max_favor_value + 1)

Next ==
  \/ \E u \in Users, n \in NameHints, s \in umos : OnLLMRequest(u, n, s)
  \/ \E u \in Users, n \in NameHints, txt \in Texts, s \in umos :
       OnLLMResponse(u, n, txt, s)
  \/ \E u \in Users, v \in AdminValues, s \in umos : AdminSetFavor(u, v, s)
  \/ \E u \in Users, s \in umos : AdminBlacklistAdd(u, s)
  \/ \E u \in Users, s \in umos : AdminBlacklistRemove(u, s)
  \/ \E u \in Users, s \in umos : AdminWhitelistAdd(u, s)
  \/ \E u \in Users, s \in umos : AdminWhitelistRemove(u, s)
  \/ \E u \in Users, n \in NameHints, s \in umos : QueryFavor(u, n, s)
  \/ \E s \in umos : GroupFavorRanking(s)
  \/ \E s \in umos : GroupDislikeRanking(s)
  \/ \E s \in umos : GroupBlacklistRanking(s)
  \/ \E s \in umos : GlobalBlacklistRanking(s)
  \/ GlobalFavorRanking
  \/ GlobalDislikeRanking
  \/ Tick
  \/ Restart
  \/ CrashRestart

Spec == Init /\ [][Next]_vars

(***************************************************************************)
(* The plugin is stopped, reconfigured and started again.                  *)
(***************************************************************************)
\* FavorPlugin.terminate: every store is saved and the process ends.  The
\* store variables keep what the manager held; nothing reads them before
\* the next manager has loaded the files.
Terminate ==
  /\ process = "running"
  /\ Commit(terminate(Mgr))
  /\ process' = "stopped"
  /\ UNCHANGED << config, now, umos, draw, tier, conc >>

\* FavorPlugin.__init__ constructs a FavorManager: _init_data loads the ten
\* files and runs the two sweeps, unless a _load_data call raises, which
\* nothing catches.
Construct ==
  /\ process = "stopped"
  /\ IF LoadRaises(disk)
     THEN /\ process' = "failed"
          /\ UNCHANGED << stores, disk >>
     ELSE /\ Commit(_init_data(disk, now))
          /\ process' = "running"
  /\ UNCHANGED << config, now, umos, draw, tier, conc >>

\* The configuration entry session_based_favor is changed while the plugin
\* is stopped; _init_config reads it at the next construction.
SwitchFavorMode ==
  /\ process = "stopped"
  /\ session_based_favor' = ~session_based_favor
  /\ UNCHANGED << stores, disk, session_based_blacklist, session_based_counter,
                  limits, decay, now, umos, draw, process, tier, conc >>

\* The plugin starts with global addressing in a directory of empty files.
SwitchInit ==
  /\ Init
  /\ ~session_based_favor /\ ~session_based_blacklist /\ ~session_based_counter

SwitchNext ==
  \/ Next
  \/ Terminate
  \/ Construct
  \/ SwitchFavorMode

SwitchSpec == SwitchInit /\ [][SwitchNext]_vars

(***************************************************************************)
(* A process that dies while _init_data runs the sweeps.  Each sweep       *)
(* changes the stores in memory and then saves the files one by one.       *)
(***************************************************************************)
\* The files a part of a sweep saved, in the order of its _save_data calls:
\* M is the manager before the part, R the manager after it.
PartWrites(M, R, order) ==
  LET Saved(f) == R.disk[f] # M.disk[f]
      fs == SelectSeq(order, Saved)
  IN [i \in 1 .. Len(fs) |-> [file |-> fs[i], content |-> R.disk[fs[i]]]]

\* The writes of _check_auto_removal and _check_auto_decrease, in order, when
\* _init_data runs them on the stores loaded from files at current_time.
SweepWrites(files, current_time) ==
  LET M0 == LoadAll(files)
      M1 == IF auto_remove_enabled THEN AutoRemovalGlobal(M0, current_time) ELSE M0
      M2 == IF auto_remove_enabled /\ session_based_blacklist
            THEN AutoRemovalSession(M1, current_time) ELSE M1
      M3 == IF auto_decrease_enabled THEN AutoDecreaseGlobal(M2, current_time) ELSE M2
      M4 == IF auto_decrease_enabled /\ session_based_counter
            THEN AutoDecreaseSession(M3, current_time) ELSE M3
  IN PartWrites(M0, M1, << "blacklist", "low_counter", "favor_data" >>)
       \o PartWrites(M1, M2, << "session_blacklist", "session_favor_data",
                               "session_low_counter" >>)
       \o PartWrites(M2, M3, << "low_counter", "last_decrease_time" >>)
       \o PartWrites(M3, M4, << "session_low_counter", "last_decrease_time" >>)

\* The files after the first k of the writes.
FilesAfter(files, writes, k) ==
  [f \in StoreNames |->
     LET done == {i \in 1 .. k : writes[i].file = f}
     IN IF done = {} THEN files[f]
        ELSE writes[CHOOSE i \in done : \A j \in done : j <= i].content]

\* The constructor starts and the process dies after the k-th write of the
\* sweeps, with writes still to come.
ConstructCrashes(k) ==
  /\ process = "stopped"
  /\ ~LoadRaises(disk)
  /\ k >= 1 /\ k < Len(SweepWrites(disk, now))
  /\ disk' = FilesAfter(disk, SweepWrites(disk, now), k)
  /\ UNCHANGED << stores, config, now, umos, draw, process, tier, conc >>

CrashNext ==
  \/ Next
  \/ Terminate
  \/ Construct
  \/ \E k \in 1 .. (Len(SweepWrites(disk, now)) - 1) : ConstructCrashes(k)

CrashSpec == Init /\ [][CrashNext]_vars

(***************************************************************************)
(* A manager is constructed in a data directory whose files hold the      *)
(* stores of an earlier run, up to two of them absent or damaged.         *)
(***************************************************************************)
SampleEntry == [timestamp |-> StartTime, auto_added |-> TRUE]
SampleDisk ==
  [f \in StoreNames |->
     File(CASE f = "favor_data" ->
                 Put(EmptyDict, "u1",
                     [name |-> "nick", favor |-> min_favor_value, last_session_id |-> "g1"])
            [] f = "session_favor_data" ->
                 Put(EmptyDict, "g1",
                     Put(EmptyDict, "u1", [name |-> "nick", favor |-> min_favor_value]))
            [] f = "blacklist" -> Put(EmptyDict, "u1", SampleEntry)
            [] f = "session_blacklist" ->
                 Put(EmptyDict, "g1", Put(EmptyDict, "u1", SampleEntry))
            [] f = "whitelist" -> Put(EmptyDict, "u1", TRUE)
            [] f = "low_counter" -> Put(EmptyDict, "u1", black_threshold)
            [] f = "session_low_counter" ->
                 Put(EmptyDict, "g1", Put(EmptyDict, "u1", black_threshold))
            [] f = "last_decrease_time" ->
                 Put(Put(EmptyDict, "u1", StartTime), CompositeKey("g1", "u1"), StartTime)
            [] f = "blacklist_counts" -> Put(EmptyDict, "u1", 1)
            [] f = "session_blacklist_counts" ->
                 Put(EmptyDict, "g1", Put(EmptyDict, "u1", 1)))]

Intact == [kind |-> "intact"]
Damage == {Intact, Absent, Unparseable, NotMapping}
Damaged(f1, k1, f2, k2) ==
  [f \in StoreNames |->
     IF f = f1 /\ k1 # Intact THEN k1
     ELSE IF f = f2 /\ k2 # Intact THEN k2
     ELSE SampleDisk[f]]

LoadInit ==
  /\ ConfigRead
  /\ favor_data = EmptyDict /\ session_favor_data = EmptyDict
  /\ blacklist = EmptyDict /\ session_blacklist = EmptyDict
  /\ whitelist = EmptyDict
  /\ low_counter = EmptyDict /\ session_low_counter = EmptyDict
  /\ last_decrease_time = EmptyDict
  /\ blacklist_counts = EmptyDict /\ session_blacklist_counts = EmptyDict
  /\ \E f1 \in StoreNames, f2 \in StoreNames, k1 \in Damage, k2 \in Damage :
       disk = Damaged(f1, k1, f2, k2)
  /\ session_based_favor \in BOOLEAN
  /\ session_based_blacklist \in BOOLEAN
  /\ session_based_counter \in BOOLEAN
  /\ now = StartTime + MaxTicks * 3600
  /\ umos = {"g1"}
  /\ process = "stopped"
  /\ value = 0 /\ level = None /\ levell = None
  /\ NoneInFlight
  /\ NoDraw

LoadNext == Construct

LoadSpec == LoadInit /\ [][LoadNext]_vars

(***************************************************************************)
(* The tier functions applied to the scores -MaxTier .. MaxTier.          *)
(***************************************************************************)
TierInit ==
  /\ ConfigRead
  /\ favor_data = EmptyDict /\ session_favor_data = EmptyDict
  /\ blacklist = EmptyDict /\ session_blacklist = EmptyDict
  /\ whitelist = EmptyDict
  /\ low_counter = EmptyDict /\ session_low_counter = EmptyDict
  /\ last_decrease_time = EmptyDict
  /\ blacklist_counts = EmptyDict /\ session_blacklist_counts = EmptyDict
  /\ disk = EmptyStores
  /\ session_based_favor = FALSE
  /\ session_based_blacklist = FALSE
  /\ session_based_counter = FALSE
  /\ now = StartTime
  /\ umos = {"g1"}
  /\ process = "running"
  /\ value \in (0 - MaxTier) .. MaxTier
  /\ level = None /\ levell = None
  /\ NoneInFlight
  /\ NoDraw

TierDescription ==
  /\ level' = get_favor_level(value)
  /\ UNCHANGED << stores, disk, config, now, umos, draw, process, value, levell, conc >>

TierLabel ==
  /\ levell' = get_favor_levell(value)
  /\ UNCHANGED << stores, disk, config, now, umos, draw, process, value, level, conc >>

TierNext == TierDescription \/ TierLabel

TierSpec == TierInit /\ [][TierNext]_vars

(***************************************************************************)
(* Requests in flight.  The framework calls handle_llm_request_favor      *)
(* before it asks the LLM and on_llm_resp_favor when the answer is there;  *)
(* between the two, the handlers of other events run.  A handler has no   *)
(* await, so each runs to its end once the event loop has started it.      *)
(***************************************************************************)
\* handle_llm_request_favor for the request in slot r: a request that is not
\* stopped goes to the LLM and waits for its response.
RequestAdmitted(r, user_id, user_name, current_umo) ==
  LET H == handle_llm_request_favor(Mgr, user_id, user_name, current_umo)
  IN /\ process = "running"
     /\ inflight[r] = Idle
     /\ loop = 0
     /\ Commit(H.M)
     /\ inflight' = IF H.stopped THEN inflight
                    ELSE [inflight EXCEPT
                            ![r] = [phase |-> "admitted", user_id |-> user_id,
                                    user_name |-> user_name, umo |-> current_umo]]
     /\ UNCHANGED << config, now, umos, draw, process, tier, loop, origin >>

\* on_llm_resp_favor for the response to the request in slot r.
ResponseArrives(r, original_text) ==
  /\ process = "running"
  /\ inflight[r].phase = "admitted"
  /\ loop = 0
  /\ \E R \in update_favor(Mgr, inflight[r].user_id, inflight[r].user_name,
                           original_text, inflight[r].umo, now) :
       Commit(R)
  /\ inflight' = [inflight EXCEPT ![r] = Idle]
  /\ UNCHANGED << config, now, umos, draw, process, tier, loop, origin >>

FlightNext ==
  \/ \E r \in Requests, u \in Users, n \in NameHints, s \in umos :
       RequestAdmitted(r, u, n, s)
  \/ \E r \in Requests, txt \in Texts : ResponseArrives(r, txt)

FlightSpec == Init /\ [][FlightNext]_vars

(***************************************************************************)
(* update_favor statement by statement.  A burst is a set of responses    *)
(* whose requests were all let through before the first of them arrived;  *)
(* origin is the manager that first response found.                        *)
(***************************************************************************)
\* Mutant: the handlers run as threads, each statement may follow any other.
MayRun_Preemptive(r) == TRUE

\* on_llm_resp_favor is a coroutine and neither it nor update_favor awaits:
\* once the event loop has started the handler of r, no other handler runs
\* until it returns.
MayRun(r) == loop = 0 \/ loop = r

\* update_favor up to the computation of new_favor (lines 353-366): the call
\* returns at once for the bot, a whitelisted user or a text without a tag;
\* otherwise the delta is drawn, the record is resolved and the affinity read.
UpdateBegins(r, change_text) ==
  LET call == inflight[r]
      s_id_favor_storage == IF session_based_favor THEN call.umo ELSE None
      M1 == _get_favor_data_entry(Mgr, call.user_id, call.user_name, s_id_favor_storage,
                                  call.umo)
      current_favor == get_favor(M1, call.user_id, s_id_favor_storage)
      returns == \/ call.user_id = bot_self_id
                 \/ call.user_id \in DOMAIN whitelist
                 \/ _calculate_favor_delta(change_text) = {}
  IN /\ process = "running"
     /\ call.phase = "admitted"
     /\ MayRun(r)
     /\ origin' = IF origin = NoBurst THEN Mgr ELSE origin
     /\ IF returns
        THEN /\ Commit(Mgr)
             /\ inflight' = [inflight EXCEPT
                               ![r] = [call EXCEPT !.phase = "done"] @@
                                      [change_text |-> change_text, delta |-> 0,
                                       new_favor |-> 0]]
             /\ loop' = 0
        ELSE /\ Commit(M1)
             /\ \E delta \in _calculate_favor_delta(change_text) :
                  inflight' = [inflight EXCEPT
                                 ![r] = [call EXCEPT !.phase = "read"] @@
                                        [change_text |-> change_text, delta |-> delta,
                                         new_favor |->
                                           Max(min_favor_value,
                                               Min(max_favor_value, current_favor + delta))]]
             /\ loop' = r
     /\ UNCHANGED << config, now, umos, draw, process, tier >>

\* favor_entry["favor"] = new_favor and the save of the table (lines 367-370).
UpdateWrites(r) ==
  LET call == inflight[r]
      s_id_favor_storage == IF session_based_favor THEN call.umo ELSE None
      M2 == SetEntryFavor(Mgr, call.user_id, s_id_favor_storage, call.new_favor)
  IN /\ call.phase = "read"
     /\ MayRun(r)
     /\ Commit(IF session_based_favor THEN _save_data(M2, "session_favor_data")
               ELSE _save_data(M2, "favor_data"))
     /\ inflight' = [inflight EXCEPT ![r].phase = "written"]
     /\ UNCHANGED << config, now, umos, draw, process, tier, loop, origin >>

\* The strike (lines 372-373).
UpdateStrikes(r) ==
  LET call == inflight[r]
  IN /\ call.phase = "written"
     /\ MayRun(r)
     /\ Commit(IF call.delta < 0 /\ call.new_favor <= black_favor_limit
               THEN increment_low_counter(Mgr, call.user_id,
                      IF session_based_counter THEN call.umo ELSE None)
               ELSE Mgr)
     /\ inflight' = [inflight EXCEPT ![r].phase = "struck"]
     /\ UNCHANGED << config, now, umos, draw, process, tier, loop, origin >>

\* The check of the blacklist condition (line 374), and the return.
UpdateChecks(r) ==
  LET call == inflight[r]
  IN /\ call.phase = "struck"
     /\ MayRun(r)
     /\ Commit(_check_blacklist_condition(Mgr, call.user_id, call.new_favor, call.umo, now))
     /\ inflight' = [inflight EXCEPT ![r].phase = "done", ![r].new_favor = 0]
     /\ loop' = 0
     /\ UNCHANGED << config, now, umos, draw, process, tier, origin >>

\* Every response of the burst has been handled; the next requests come.
BurstEnds ==
  /\ origin # NoBurst
  /\ \A r \in Requests : inflight[r].phase \in {"idle", "done"}
  /\ inflight' = [r \in Requests |-> Idle]
  /\ origin' = NoBurst
  /\ UNCHANGED << stores, disk, config, now, umos, draw, process, tier, loop >>

\* The texts of the responses of a burst: one tag of increase, one of
\* decrease, or no tag.
BurstTexts == {{"up"}, {"down"}, {}}

AtomNext ==
  \/ \E r \in Requests, u \in Users, s \in umos :
       origin = NoBurst /\ RequestAdmitted(r, u, None, s)
  \/ \E r \in Requests, txt \in BurstTexts : UpdateBegins(r, txt)
  \/ \E r \in Requests : UpdateWrites(r)
  \/ \E r \in Requests : UpdateStrikes(r)
  \/ \E r \in Requests : UpdateChecks(r)
  \/ BurstEnds

AtomSpec == Init /\ [][AtomNext]_vars

(***************************************************************************)
(* Responses of two users arrive from two sessions, so that every store   *)
(* holds entries of a user and of a session other than the ones of the    *)
(* response that is handled.                                              *)
(***************************************************************************)
FrameUsers == {"u1", "u2"}
FrameTexts == {{"up"}, {"down"}}
\* Who wrote where: u1 in both sessions, u2 in the group.
FramePairs == {<<"u1", "g1">>, <<"u1", "p1">>, <<"u2", "g1">>}

FrameInit ==
  /\ ConfigRead
  /\ favor_data = EmptyDict /\ session_favor_data = EmptyDict
  /\ blacklist = EmptyDict /\ session_blacklist = EmptyDict
  /\ whitelist = EmptyDict
  /\ low_counter = EmptyDict /\ session_low_counter = EmptyDict
  /\ last_decrease_time = EmptyDict
  /\ blacklist_counts = EmptyDict /\ session_blacklist_counts = EmptyDict
  /\ disk = EmptyStores
  /\ session_based_favor \in BOOLEAN
  /\ session_based_blacklist \in BOOLEAN
  /\ session_based_counter \in BOOLEAN
  /\ now = StartTime
  /\ umos = Sessions
  /\ process = "running"
  /\ value = 0 /\ level = None /\ levell = None
  /\ NoneInFlight
  /\ NoDraw

FrameNext ==
  \E p \in FramePairs, txt \in FrameTexts : OnLLMResponse(p[1], None, txt, p[2])

FrameSpec == FrameInit /\ [][FrameNext]_vars

(***************************************************************************)
(* Deployments that configure other affinity ranges, among them ranges    *)
(* that do not contain 0.                                                  *)
(***************************************************************************)
ConfiguredRanges == {<<-2, 1>>, <<1, 2>>, <<-2, -1>>}

RangeInit ==
  /\ \E r \in ConfiguredRanges : min_favor_value = r[1] /\ max_favor_value = r[2]
  /\ auto_decrease_enabled = config_auto_decrease_counter
  /\ auto_decrease_hours = config_auto_decrease_counter_hours
  /\ auto_decrease_amount = config_auto_decrease_counter_amount
  /\ favor_data = EmptyDict /\ session_favor_data = EmptyDict
  /\ blacklist = EmptyDict /\ session_blacklist = EmptyDict
  /\ whitelist = EmptyDict
  /\ low_counter = EmptyDict /\ session_low_counter = EmptyDict
  /\ last_decrease_time = EmptyDict
  /\ blacklist_counts = EmptyDict /\ session_blacklist_counts = EmptyDict
  /\ disk = EmptyStores
  /\ session_based_favor \in BOOLEAN
  /\ session_based_blacklist \in BOOLEAN
  /\ session_based_counter \in BOOLEAN
  /\ now = StartTime
  /\ umos = {"g1"}
  /\ process = "running"
  /\ value = 0 /\ level = None /\ levell = None
  /\ NoneInFlight
  /\ NoDraw

RangeNext ==
  \/ \E u \in Users, s \in umos : OnLLMRequest(u, None, s)
  \/ \E u \in Users, txt \in Texts, s \in umos : OnLLMResponse(u, None, txt, s)
  \/ \E u \in Users, v \in AdminValues, s \in umos : AdminSetFavor(u, v, s)
  \/ \E u \in Users, s \in umos : AdminBlacklistAdd(u, s)
  \/ \E u \in Users, s \in umos : AdminBlacklistRemove(u, s)
  \/ Tick
  \/ Restart

RangeSpec == RangeInit /\ [][RangeNext]_vars

(***************************************************************************)
(* A manager is constructed in a data directory that holds strike         *)
(* counters of users and sessions whose identifiers contain the           *)
(* character "_", which the key of a session counter in last_decrease_time *)
(* is built with.  The global counters are those of an earlier run with   *)
(* session_based_counter off.                                              *)
(***************************************************************************)
KeyUsers == {"u1", "x_u1", "g1_u1"}
KeySessions == {"g1", "g1_x"}

\* The store that holds the counter MaxStrike under each of the keys.
CountersOf(users) == [u \in users |-> MaxStrike]
SessionCountersOf(pairs) ==
  [s \in {p[1] : p \in pairs} |-> CountersOf({p[2] : p \in {q \in pairs : q[1] = s}})]

KeyInit ==
  /\ ConfigRead
  /\ favor_data = EmptyDict /\ session_favor_data = EmptyDict
  /\ blacklist = EmptyDict /\ session_blacklist = EmptyDict
  /\ whitelist = EmptyDict
  /\ low_counter = EmptyDict /\ session_low_counter = EmptyDict
  /\ last_decrease_time = EmptyDict
  /\ blacklist_counts = EmptyDict /\ session_blacklist_counts = EmptyDict
  /\ \E users \in SUBSET KeyUsers, pairs \in SUBSET (KeySessions \X KeyUsers) :
       disk = [EmptyStores EXCEPT
                 !["low_counter"] = File(CountersOf(users)),
                 !["session_low_counter"] = File(SessionCountersOf(pairs))]
  /\ session_based_favor \in BOOLEAN
  /\ session_based_blacklist \in BOOLEAN
  /\ session_based_counter \in BOOLEAN
  /\ now = StartTime
  /\ umos = {"g1"}
  /\ process = "stopped"
  /\ value = 0 /\ level = None /\ levell = None
  /\ NoneInFlight
  /\ NoDraw

KeyNext == Construct

KeySpec == KeyInit /\ [][KeyNext]_vars

(***************************************************************************)
(* _calculate_favor_delta applied to the texts that hold any of the four  *)
(* tags.                                                                   *)
(***************************************************************************)
DeltaInit ==
  /\ ConfigRead
  /\ favor_data = EmptyDict /\ session_favor_data = EmptyDict
  /\ blacklist = EmptyDict /\ session_blacklist = EmptyDict
  /\ whitelist = EmptyDict
  /\ low_counter = EmptyDict /\ session_low_counter = EmptyDict
  /\ last_decrease_time = EmptyDict
  /\ blacklist_counts = EmptyDict /\ session_blacklist_counts = EmptyDict
  /\ disk = EmptyStores
  /\ session_based_favor = FALSE
  /\ session_based_blacklist = FALSE
  /\ session_based_counter = FALSE
  /\ now = StartTime
  /\ umos = {"g1"}
  /\ process = "running"
  /\ value = 0 /\ level = None /\ levell = None
  /\ NoneInFlight
  /\ completion_text \in SUBSET Tags
  /\ returned_delta = NotCalled

\* _calculate_favor_delta returns None, or the integer it drew.
CalculateFavorDelta ==
  /\ IF _calculate_favor_delta(completion_text) = {}
     THEN returned_delta' = [returned |-> "None"]
     ELSE \E d \in _calculate_favor_delta(completion_text) :
            returned_delta' = [returned |-> "int", int |-> d]
  /\ UNCHANGED << stores, disk, config, now, umos, completion_text, process, tier, conc >>

DeltaNext == CalculateFavorDelta

DeltaSpec == DeltaInit /\ [][DeltaNext]_vars

(***************************************************************************)
(* The administrator changes the decay parameters while the process       *)
(* runs.  The constructor of the next process is taken in its two steps:  *)
(* _init_config reads the configuration, then _init_data loads the files  *)
(* and runs the sweeps with the attributes _init_config has set.          *)
(***************************************************************************)
\* The integers the administrator gives to the counter command.
CounterValues == 0 .. 2

\* admin_control, cmd "计数器" with "开启" or "关闭"
AdminCounterSwitch(on) ==
  /\ process = "running"
  /\ auto_decrease_enabled' = on
  /\ UNCHANGED << stores, disk, flags, limits, auto_decrease_hours, auto_decrease_amount,
                  now, umos, draw, process, tier, conc >>

\* admin_control, cmd "计数器" with "间隔" and a value
AdminCounterHours(val_int_counter) ==
  /\ process = "running"
  /\ auto_decrease_hours' = IF val_int_counter <= 0 THEN auto_decrease_hours
                            ELSE val_int_counter
  /\ UNCHANGED << stores, disk, flags, limits, auto_decrease_enabled, auto_decrease_amount,
                  now, umos, draw, process, tier, conc >>

\* admin_control, cmd "计数器" with "数量" and a value
AdminCounterAmount(val_int_counter) ==
  /\ process = "running"
  /\ auto_decrease_amount' = IF val_int_counter <= 0 THEN auto_decrease_amount
                             ELSE val_int_counter
  /\ UNCHANGED << stores, disk, flags, limits, auto_decrease_enabled, auto_decrease_hours,
                  now, umos, draw, process, tier, conc >>

\* Mutant: the decay parameters the last process had are kept.
ConstructConfig_KeepsDecay ==
  /\ process = "stopped"
  /\ process' = "configured"
  /\ UNCHANGED << stores, disk, config, now, umos, draw, tier, conc >>

\* FavorManager.__init__, first step: _init_config sets the attributes from
\* the configuration.
ConstructConfig ==
  /\ process = "stopped"
  /\ process' = "configured"
  /\ auto_decrease_enabled' = config_auto_decrease_counter
  /\ auto_decrease_hours' = config_auto_decrease_counter_hours
  /\ auto_decrease_amount' = config_auto_decrease_counter_amount
  /\ UNCHANGED << stores, disk, flags, limits, now, umos, draw, tier, conc >>

\* FavorManager.__init__, second step: _init_data.
ConstructData ==
  /\ process = "configured"
  /\ IF LoadRaises(disk)
     THEN /\ process' = "failed"
          /\ UNCHANGED << stores, disk >>
     ELSE /\ Commit(_init_data(disk, now))
          /\ process' = "running"
  /\ UNCHANGED << config, now, umos, draw, tier, conc >>

ConfigNext ==
  \/ \E u \in Users, txt \in BurstTexts, s \in umos : OnLLMResponse(u, None, txt, s)
  \/ \E on \in BOOLEAN : AdminCounterSwitch(on)
  \/ \E v \in CounterValues : AdminCounterHours(v)
  \/ \E v \in CounterValues : AdminCounterAmount(v)
  \/ Tick
  \/ Terminate
  \/ ConstructConfig
  \/ ConstructData

ConfigSpec == Init /\ [][ConfigNext]_vars

(***************************************************************************)
(* Properties.                                                             *)
(***************************************************************************)
\* The manager in the next state of a step.
MgrNext == [favor_data |-> favor_data',
            session_favor_data |-> session_favor_data',
            blacklist |-> blacklist',
            session_blacklist |-> session_blacklist',
            whitelist |-> whitelist',
            low_counter |-> low_counter',
            session_low_counter |-> session_low_counter',
            last_decrease_time |-> last_decrease_time',
            blacklist_counts |-> blacklist_counts',
            session_blacklist_counts |-> session_blacklist_counts',
            disk |-> disk']

InBounds(v) == min_favor_value <= v /\ v <= max_favor_value

\* The blacklist entry is_blacklisted finds.
BlacklistEntry(M, user_id, session_id) ==
  IF session_based_blacklist /\ session_id # None
  THEN M.session_blacklist[session_id][user_id]
  ELSE M.blacklist[user_id]

\* A step is an applyDelta on (u, s) when on_llm_resp_favor handled a response
\* of u in s, and a negative one when the text draws a negative delta.
IsApplyDelta(u, s) ==
  \E n \in NameHints, txt \in Texts : OnLLMResponse(u, n, txt, s)
IsNegativeApplyDelta(u, s) ==
  \E n \in NameHints, txt \in {x \in Texts : DeltaSign(x) = "neg"} :
    OnLLMResponse(u, n, txt, s)

\* The step properties below have the shape (Pre /\ ~Post) => ~Operation,
\* which says Operation /\ Pre => Post and lets the operation be examined
\* only on the steps that would break it.

\* C1: every applyDelta (an LLM response handled by update_favor, whatever
\* its tags and its random delta) on a user whose affinity is within
\* [min_favor_value, max_favor_value] leaves the stored affinity within them.
C1_DeltaKeepsAffinityInBounds ==
  [][\A u \in Users, s \in umos :
       (/\ InBounds(get_favor(Mgr, u, SidFavor(s)))
        /\ ~InBounds(get_favor(MgrNext, u, SidFavor(s))))
       => ~IsApplyDelta(u, s)]_vars

\* A negative delta was applied and clamped at the minimum: the affinity is
\* the minimum and a strike was recorded.
C1_Witness ==
  /\ get_favor(Mgr, "u1", SidFavor("g1")) = min_favor_value
  /\ get_low_counter(Mgr, "u1", SidCounter("g1")) >= 1

\* What C2 promises of a striking update of (u, s) that found j strikes.
C2_Post(u, s) ==
  LET j == get_low_counter(Mgr, u, SidCounter(s))
  IN /\ get_low_counter(MgrNext, u, SidCounter(s)) = j + 1
     /\ (j + 1 < black_threshold
           => /\ ~is_blacklisted(MgrNext, u, SidBlacklist(s))
              /\ get_blacklist_count(MgrNext, u, SidBlacklist(s)) = 0)
     /\ (j + 1 = black_threshold
           => /\ is_blacklisted(MgrNext, u, SidBlacklist(s))
              /\ BlacklistEntry(MgrNext, u, SidBlacklist(s)).auto_added
              /\ get_blacklist_count(MgrNext, u, SidBlacklist(s)) = 1)

\* C2: an applyDelta with a negative delta that leaves the affinity at or
\* below black_favor_limit, on a user who is not whitelisted, not listed and
\* was never listed, adds one strike; while the strikes stay below
\* black_threshold the user stays unlisted, and with the strike that reaches
\* black_threshold the user is listed with auto_added = TRUE and a blacklist
\* count of exactly 1.  (A fresh user has no strikes, so the k-th such update
\* in a row is the one that lists.)
C2_ThresholdStrikeBlacklists ==
  [][\A u \in Users \ {bot_self_id}, s \in umos :
       (/\ u \notin DOMAIN whitelist
        /\ get_favor(MgrNext, u, SidFavor(s)) <= black_favor_limit
        /\ ~is_blacklisted(Mgr, u, SidBlacklist(s))
        /\ get_blacklist_count(Mgr, u, SidBlacklist(s)) = 0
        /\ ~C2_Post(u, s))
       => ~IsNegativeApplyDelta(u, s)]_vars

\* The user was listed automatically by the strike that reached the threshold.
C2_Witness ==
  /\ is_blacklisted(Mgr, "u1", SidBlacklist("g1"))
  /\ BlacklistEntry(Mgr, "u1", SidBlacklist("g1")).auto_added
  /\ get_blacklist_count(Mgr, "u1", SidBlacklist("g1")) = 1
  /\ get_low_counter(Mgr, "u1", SidCounter("g1")) = black_threshold
  /\ get_favor(Mgr, "u1", SidFavor("g1")) <= black_favor_limit

\* C3: in every combination of the three flags, after the administrator's
\* removal command takes a listed user off the blacklist in session s, the
\* affinity of the user read in s under the affinity mode is 0 and the strike
\* count read in s under the counter mode is 0.
C3_AdminRemovalResetsAffinityAndStrikes ==
  [][\A u \in Users, s \in umos :
       (/\ is_blacklisted(Mgr, u, SidBlacklist(s))
        /\ ~(/\ get_favor(MgrNext, u, SidFavor(s)) = 0
             /\ get_low_counter(MgrNext, u, SidCounter(s)) = 0))
       => ~AdminBlacklistRemove(u, s)]_vars

\* The session arguments a caller may give to a manager operation.
SessionArgs == {None} \cup Sessions

\* C4: remove_from_blacklist on a user who is not listed leaves the manager
\* as it was (every store and every file: affinity, strike counters,
\* blacklists, counts), and so does a second removal after a first.
C4_RemovalOfUnlistedChangesNothing ==
  \A u \in Users, sid \in SessionArgs :
    /\ ~is_blacklisted(Mgr, u, sid) => remove_from_blacklist(Mgr, u, sid) = Mgr
    /\ LET once == remove_from_blacklist(Mgr, u, sid)
       IN remove_from_blacklist(once, u, sid) = once

\* An unlisted user with a nonzero affinity, a strike and a past listing:
\* a removal that reset anything would show.
C4_Witness ==
  /\ ~is_blacklisted(Mgr, "u1", SidBlacklist("g1"))
  /\ get_favor(Mgr, "u1", SidFavor("g1")) < 0
  /\ get_low_counter(Mgr, "u1", SidCounter("g1")) = 1
  /\ get_blacklist_count(Mgr, "u1", SidBlacklist("g1")) = 1

\* C5: in both blacklist modes, add_to_blacklist (manual or automatic) of a
\* user other than the agent, with the session argument the callers derive
\* from the blacklist mode, leaves the user listed; the count read in the
\* store of the blacklist mode is one more than before when the user was not
\* listed, and the same as before when the user was listed.
C5_AddCountsFirstInsertionOnly ==
  \A u \in Users \ {bot_self_id}, s \in Sessions, a \in BOOLEAN :
    LET sid == SidBlacklist(s)
        R == add_to_blacklist(Mgr, u, sid, a, now)
    IN /\ is_blacklisted(R, u, sid)
       /\ get_blacklist_count(R, u, sid) =
            get_blacklist_count(Mgr, u, sid)
              + (IF is_blacklisted(Mgr, u, sid) THEN 0 ELSE 1)

\* A user listed by the administrator, once: the count is 1 and a second add
\* would find the entry.
C5_Witness ==
  /\ is_blacklisted(Mgr, "u1", SidBlacklist("g1"))
  /\ ~BlacklistEntry(Mgr, "u1", SidBlacklist("g1")).auto_added
  /\ get_blacklist_count(Mgr, "u1", SidBlacklist("g1")) = 1

\* C6: no step (removal, expiry sweep, restart, re-listing, ...) lowers a
\* cumulative blacklist count, global or of a session.
C6_BlacklistCountNeverDecreases ==
  [][\A u \in Users :
       /\ Get(blacklist_counts', u, 0) >= Get(blacklist_counts, u, 0)
       /\ \A s \in Sessions :
            Get(Get(session_blacklist_counts', s, EmptyDict), u, 0)
              >= Get(Get(session_blacklist_counts, s, EmptyDict), u, 0)]_vars

\* The user was listed twice and taken off the list twice; the count stayed.
C6_Witness ==
  /\ ~is_blacklisted(Mgr, "u1", SidBlacklist("g1"))
  /\ get_blacklist_count(Mgr, "u1", SidBlacklist("g1")) = 2

\* C7: an applyDelta (a response with any tag or none) for a whitelisted user
\* changes no store and no file: the affinity, the strike counters, the
\* blacklists and the blacklist counts are as before.
C7_WhitelistedDeltaChangesNothing ==
  [][\A u \in Users, s \in umos :
       (/\ u \in DOMAIN whitelist
        /\ << stores, disk >>' # << stores, disk >>)
       => ~IsApplyDelta(u, s)]_vars

\* A whitelisted user with a negative affinity at the trigger threshold: a
\* delta that was applied would move the affinity or add a strike.
C7_Witness ==
  /\ "u1" \in DOMAIN whitelist
  /\ get_favor(Mgr, "u1", SidFavor("g1")) = black_favor_limit
  /\ get_low_counter(Mgr, "u1", SidCounter("g1")) = 1

\* C8: in every reachable state the agent's own id is a key of neither
\* blacklist, neither strike-counter store and neither affinity store.
C8_AgentIdInNoStore ==
  /\ bot_self_id \notin DOMAIN blacklist
  /\ bot_self_id \notin DOMAIN low_counter
  /\ bot_self_id \notin DOMAIN favor_data
  /\ \A s \in DOMAIN session_blacklist : bot_self_id \notin DOMAIN session_blacklist[s]
  /\ \A s \in DOMAIN session_low_counter : bot_self_id \notin DOMAIN session_low_counter[s]
  /\ \A s \in DOMAIN session_favor_data : bot_self_id \notin DOMAIN session_favor_data[s]

\* The stores hold a listed, struck user with an affinity record, so the
\* operations that fill them have run, for the agent's id too.
C8_Witness ==
  /\ is_blacklisted(Mgr, "u1", SidBlacklist("g1"))
  /\ get_low_counter(Mgr, "u1", SidCounter("g1")) >= 1
  /\ get_favor(Mgr, "u1", SidFavor("g1")) < 0
  /\ C8_AgentIdInNoStore

\* The managers _check_auto_removal and _check_auto_decrease are given when a
\* process starts now: the stores loaded from the files, after terminate or
\* without it, and for the decay sweep after the expiry sweep.
RemovalInputs == {LoadAll(terminate(Mgr).disk), LoadAll(disk)}
DecreaseInputs == {_check_auto_removal(M, now) : M \in RemovalInputs}

\* What C9 promises of the counter ct stored in row under uid, with the
\* timestamp key k, after a sweep that leaves row_after.
C9_Decayed(M, R, ct, k, uid, row_after) ==
  IF ct > 0 /\ now - Get(M.last_decrease_time, k, 0) >= auto_decrease_hours * 3600
  THEN /\ Get(row_after, uid, 0) = Max(0, ct - auto_decrease_amount)
       /\ (ct - auto_decrease_amount <= 0 => uid \notin DOMAIN row_after)
       /\ Get(R.last_decrease_time, k, 0) = now
  ELSE /\ uid \in DOMAIN row_after
       /\ row_after[uid] = ct

\* C9: the decay sweep turns every strike counter N > 0 whose last decrease
\* (never: time 0) is at least auto_decrease_hours old into
\* max(0, N - auto_decrease_amount), once, deletes it when that is 0 so that
\* get_low_counter returns 0, and leaves every other counter as it was.
C9_DecaySweep ==
  \A M \in DecreaseInputs :
    LET R == _check_auto_decrease(M, now)
    IN /\ \A u \in DOMAIN M.low_counter :
            /\ C9_Decayed(M, R, M.low_counter[u], u, u, R.low_counter)
            /\ ~session_based_counter =>
                 get_low_counter(R, u, None) = Get(R.low_counter, u, 0)
       /\ session_based_counter =>
            \A s \in DOMAIN M.session_low_counter :
              \A u \in DOMAIN M.session_low_counter[s] :
                /\ C9_Decayed(M, R, M.session_low_counter[s][u], CompositeKey(s, u), u,
                              Get(R.session_low_counter, s, EmptyDict))
                /\ get_low_counter(R, u, s)
                     = Get(Get(R.session_low_counter, s, EmptyDict), u, 0)

\* A counter the sweep lowered from MaxStrike and kept: its last decrease is
\* now, so the interval has not elapsed for the next sweep.
C9_Witness ==
  LET k == IF session_based_counter THEN CompositeKey("g1", "u1") ELSE "u1"
  IN /\ get_low_counter(Mgr, "u1", SidCounter("g1")) = MaxStrike - auto_decrease_amount
     /\ Get(last_decrease_time, k, 0) = now

\* C10: in every combination of the flags, after the expiry sweep every entry
\* with auto_added = TRUE that is at least auto_remove_hours old is off its
\* blacklist, and the affinity of its user, read under the affinity mode for
\* the session of the entry (no session for an entry of the global
\* blacklist), is 0.
C10_ExpirySweepUnlistsAndResetsAffinity ==
  \A M \in RemovalInputs :
    LET R == _check_auto_removal(M, now)
    IN /\ \A u \in DOMAIN M.blacklist :
            Expired(M.blacklist[u], now)
              => /\ u \notin DOMAIN R.blacklist
                 /\ get_favor(R, u, None) = 0
       /\ session_based_blacklist =>
            \A s \in DOMAIN M.session_blacklist :
              \A u \in DOMAIN M.session_blacklist[s] :
                Expired(M.session_blacklist[s][u], now)
                  => /\ ~is_blacklisted(R, u, s)
                     /\ get_favor(R, u, s) = 0

\* The documented bands: the lowest score of every band but the first, and
\* the word of each band.
BandFloors == << -50, -20, 0, 50, 100, 150, 999 >>
BandWords == << "extreme dislike", "aversion", "displeasure", "neutral",
               "friendly", "close", "fond", "devoted" >>
DocumentedBand(v) == 1 + Cardinality({i \in DOMAIN BandFloors : BandFloors[i] <= v})

\* C12: the tier description and the tier label are defined for every score
\* and both name the band the documented boundaries put the score in:
\* <= -51 extreme dislike, -50..-21 aversion, -20..-1 displeasure, 0..49
\* neutral, 50..99 friendly, 100..149 close, 150..998 fond, >= 999 devoted.
C12_TiersFollowDocumentedBands ==
  /\ level # None => level = "relationship: " \o BandWords[DocumentedBand(value)]
  /\ levell # None => levell = BandWords[DocumentedBand(value)]

\* Both functions have been applied to the boundary score 150.
C12_Witness ==
  value = 150 /\ level = "relationship: fond" /\ levell = "fond"

\* C11: an entry of a blacklist that an administrator added stays as it is,
\* with its flag and its timestamp, in every step that is not the explicit
\* removal of that user: neither a sweep, whatever the age of the entry, nor a
\* delta removes or rewrites it.
C11_ManualEntryStaysUntilRemoved ==
  [][/\ \A u \in DOMAIN blacklist :
          (/\ ~blacklist[u].auto_added
           /\ ~(u \in DOMAIN blacklist' /\ blacklist'[u] = blacklist[u]))
          => \E s \in umos : AdminBlacklistRemove(u, s)
     /\ \A sid \in DOMAIN session_blacklist : \A u \in DOMAIN session_blacklist[sid] :
          (/\ ~session_blacklist[sid][u].auto_added
           /\ ~(/\ sid \in DOMAIN session_blacklist'
                /\ u \in DOMAIN session_blacklist'[sid]
                /\ session_blacklist'[sid][u] = session_blacklist[sid][u]))
          => AdminBlacklistRemove(u, sid)]_vars

\* A manual entry as old as the expiry window, of a user whose affinity and
\* strikes meet the trigger condition of the automatic blacklisting.
C11_Witness ==
  /\ ~session_based_blacklist /\ ~session_based_favor /\ ~session_based_counter
  /\ "u1" \in DOMAIN blacklist
  /\ ~blacklist["u1"].auto_added
  /\ now - blacklist["u1"].timestamp >= auto_remove_hours * 3600
  /\ get_favor(Mgr, "u1", None) <= black_favor_limit
  /\ get_low_counter(Mgr, "u1", None) >= black_threshold

\* C14, as claimed: the expiry sweep leaves the two strike-counter stores as
\* they were.
C14_ExpirySweepLeavesStrikeCounters ==
  \A M \in RemovalInputs :
    LET R == _check_auto_removal(M, now)
    IN /\ R.low_counter = M.low_counter
       /\ R.session_low_counter = M.session_low_counter

\* C14, amended: the sweep deletes the strike counter of every user it
\* unlists, in the counter store of the scope of the entry: low_counter[uid]
\* for an entry of the global blacklist, session_low_counter[sid][uid] for an
\* entry of a session blacklist when the counters are session-scoped; every
\* other strike counter is as it was and no row is left empty.
C14_ExpirySweepDeletesCountersOfUnlisted ==
  \A M \in RemovalInputs :
    LET R == _check_auto_removal(M, now)
        unlisted == (DOMAIN M.blacklist) \ (DOMAIN R.blacklist)
        s_unlisted(sid) ==
          IF session_based_counter
          THEN (DOMAIN Get(M.session_blacklist, sid, EmptyDict))
                 \ (DOMAIN Get(R.session_blacklist, sid, EmptyDict))
          ELSE {}
    IN /\ DOMAIN R.low_counter = (DOMAIN M.low_counter) \ unlisted
       /\ \A u \in DOMAIN R.low_counter : R.low_counter[u] = M.low_counter[u]
       /\ \A sid \in DOMAIN M.session_low_counter :
            LET row == Get(R.session_low_counter, sid, EmptyDict)
            IN /\ DOMAIN row = (DOMAIN M.session_low_counter[sid]) \ s_unlisted(sid)
               /\ \A u \in DOMAIN row : row[u] = M.session_low_counter[sid][u]
       /\ \A sid \in DOMAIN R.session_low_counter :
            /\ sid \in DOMAIN M.session_low_counter
            /\ s_unlisted(sid) # {} => DOMAIN R.session_low_counter[sid] # {}

\* A sweep that unlists u1 while u1 has strikes in the store of that scope.
C14_Witness ==
  \E M \in RemovalInputs :
    LET R == _check_auto_removal(M, now)
    IN \/ /\ "u1" \in (DOMAIN M.blacklist) \ (DOMAIN R.blacklist)
          /\ Get(M.low_counter, "u1", 0) >= black_threshold
       \/ /\ session_based_counter
          /\ "g1" \in DOMAIN M.session_blacklist
          /\ "u1" \in (DOMAIN M.session_blacklist["g1"])
                         \ (DOMAIN Get(R.session_blacklist, "g1", EmptyDict))
          /\ Get(Get(M.session_low_counter, "g1", EmptyDict), "u1", 0) >= black_threshold

\* C13: the two affinity tables are independent: no step taken in the
\* session-scoped affinity mode creates or changes a record of favor_data,
\* and no step taken in the global mode changes session_favor_data.
C13_AffinityTablesIndependent ==
  [][/\ (session_based_favor /\ session_based_favor') => favor_data' = favor_data
     /\ (~session_based_favor /\ ~session_based_favor')
          => session_favor_data' = session_favor_data]_vars

\* What the claim says _load_data returns for a file.
Loaded(content) == IF content.kind = "mapping" THEN content.data ELSE EmptyDict

\* C16: whatever files are absent, unparseable or not a mapping, the
\* construction of the manager does not fail, and each store is loaded from
\* its own file: empty for a file that is absent or damaged, the contents of
\* the file otherwise.
C16_LoadFailsInIsolation ==
  /\ process # "failed"
  /\ process = "stopped" =>
       \A f \in StoreNames :
         ~_load_data(disk[f]).raised => _load_data(disk[f]).data = Loaded(disk[f])

\* C17: persistence is write-through: whenever no operation is in progress,
\* the file of every store holds what the store holds in memory.
C17_FilesEqualMemory == \A f \in StoreNames : disk[f] = File(Mgr[f])

\* C18: update_favor given a text that contains none of the four tags leaves
\* the manager as it is, stores and files: whoever the user, whatever the name
\* hint and the session.
C18_UntaggedTextChangesNothing ==
  \A u \in Users, n \in NameHints, txt \in Texts, s \in umos :
    txt \cap Tags = {} => update_favor(Mgr, u, n, txt, s, now) = {Mgr}

\* u1 is on no list, at a low affinity and one strike short of the
\* blacklist: a text with a tag of decrease would change three stores.
C18_Witness ==
  /\ "u1" \notin DOMAIN whitelist
  /\ ~is_blacklisted(Mgr, "u1", SidBlacklist("g1"))
  /\ get_low_counter(Mgr, "u1", SidCounter("g1")) = black_threshold - 1
  /\ get_favor(Mgr, "u1", SidFavor("g1")) <= black_favor_limit

\* The value the override stores for v.
Clamped(v) == IF v < min_favor_value THEN min_favor_value
              ELSE IF v > max_favor_value THEN max_favor_value ELSE v

\* C19: set_favor_admin with any integer, in or out of the range, leaves the
\* clamped value as the affinity of the user in the store the affinity mode
\* selects, also for a whitelisted user, and leaves the manager as it is when
\* the user is the bot.
C19_AdminValueIsClamped ==
  \A u \in Users, v \in AdminValues, s \in umos :
    LET R == set_favor_admin(Mgr, u, DefaultName, v, s)
    IN IF u = bot_self_id THEN R = Mgr
       ELSE IF session_based_favor
            THEN /\ s \in DOMAIN R.session_favor_data
                 /\ u \in DOMAIN R.session_favor_data[s]
                 /\ R.session_favor_data[s][u].favor = Clamped(v)
            ELSE /\ u \in DOMAIN R.favor_data
                 /\ R.favor_data[u].favor = Clamped(v)

\* u1 is whitelisted and holds the lowest affinity, which only the override
\* gives to a whitelisted user's record.
C19_Witness ==
  /\ "u1" \in DOMAIN whitelist
  /\ get_favor(Mgr, "u1", SidFavor("g1")) = min_favor_value

\* C15: handle_llm_request_favor stops the event exactly when the sender is
\* on the blacklist the blacklist mode selects for the session of the event,
\* never for the bot, and otherwise puts the description of the band of the
\* sender's affinity, read under the affinity mode, into the prompt.
C15_RequestBlockedIffBlacklisted ==
  \A u \in Users, n \in NameHints, s \in umos :
    LET H == handle_llm_request_favor(Mgr, u, n, s)
        listed == IF session_based_blacklist
                  THEN u \in DOMAIN Get(session_blacklist, s, EmptyDict)
                  ELSE u \in DOMAIN blacklist
        affinity == IF u = bot_self_id THEN 0
                    ELSE IF session_based_favor
                         THEN Get(Get(session_favor_data, s, EmptyDict), u, [favor |-> 0]).favor
                         ELSE Get(favor_data, u, [favor |-> 0]).favor
    IN /\ H.stopped <=> (u # bot_self_id /\ listed)
       /\ ~H.stopped =>
            H.relationship_desc = "relationship: " \o BandWords[DocumentedBand(affinity)]

\* u1 is on the blacklist of session g1 while the affinity is global, and has
\* a negative affinity.
C15_Witness ==
  /\ session_based_blacklist /\ ~session_based_favor
  /\ is_blacklisted(Mgr, "u1", "g1")
  /\ get_favor(Mgr, "u1", None) < 0

\* A step of one of the queries: the personal affinity query and the six
\* rankings.
IsQuery ==
  \/ \E u \in Users, n \in NameHints, s \in umos : QueryFavor(u, n, s)
  \/ \E s \in umos : GroupFavorRanking(s)
  \/ \E s \in umos : GroupDislikeRanking(s)
  \/ \E s \in umos : GroupBlacklistRanking(s)
  \/ \E s \in umos : GlobalBlacklistRanking(s)
  \/ GlobalFavorRanking
  \/ GlobalDislikeRanking

\* C20: the queries are read-only: a step that changes a store or a file,
\* by creating an affinity record or by changing the affinity, the name or
\* the last session of one, is not a step of a query.
C20_QueriesChangeNoStore ==
  [][<< stores, disk >>' # << stores, disk >> => ~IsQuery]_vars

\* A step in which update_favor applied a delta to (u, s): a response whose
\* text carries a tag, of a user who is neither the bot nor whitelisted.
IsDeltaApplied(u, s) ==
  /\ u # bot_self_id
  /\ u \notin DOMAIN whitelist
  /\ \E n \in NameHints, txt \in {x \in Texts : DeltaSign(x) # "none"} :
       OnLLMResponse(u, n, txt, s)

\* The trigger condition of C21 for (u, s), on the affinity and the strike
\* count the update leaves and the blacklist it found.
C21_Trigger(u, s) ==
  /\ get_favor(MgrNext, u, SidFavor(s)) <= black_favor_limit
  /\ get_low_counter(MgrNext, u, SidCounter(s)) >= black_threshold
  /\ ~is_blacklisted(Mgr, u, SidBlacklist(s))

C21_Post(u, s) ==
  IF C21_Trigger(u, s)
  THEN /\ is_blacklisted(MgrNext, u, SidBlacklist(s))
       /\ BlacklistEntry(MgrNext, u, SidBlacklist(s)).auto_added
  ELSE /\ blacklist' = blacklist
       /\ session_blacklist' = session_blacklist

\* C21: an update that applies a delta to a user lists the user, with
\* auto_added = TRUE, exactly when the new affinity is at or below
\* black_favor_limit, the strike count after the update, read in the store the
\* counter mode selects, is at least black_threshold, and the user was not on
\* the blacklist the blacklist mode selects; in every other case the update
\* leaves both blacklists as they were.
C21_ListsExactlyOnTrigger ==
  [][\A u \in Users, s \in umos :
       ~C21_Post(u, s) => ~IsDeltaApplied(u, s)]_vars

\* An unlisted user at the strike threshold whose affinity a delta raised
\* above the trigger threshold: the update found two of the three conditions
\* and left the blacklist alone.
C21_Witness ==
  /\ ~is_blacklisted(Mgr, "u1", SidBlacklist("g1"))
  /\ get_low_counter(Mgr, "u1", SidCounter("g1")) >= black_threshold
  /\ get_favor(Mgr, "u1", SidFavor("g1")) = max_favor_value

\* A step in which update_favor applied a negative delta to (u, s), and one in
\* which it applied a positive delta.
IsNegativeDeltaApplied(u, s) ==
  /\ u # bot_self_id
  /\ u \notin DOMAIN whitelist
  /\ IsNegativeApplyDelta(u, s)
IsPositiveDeltaApplied(u, s) ==
  /\ u # bot_self_id
  /\ u \notin DOMAIN whitelist
  /\ \E n \in NameHints, txt \in {x \in Texts : DeltaSign(x) = "pos"} :
       OnLLMResponse(u, n, txt, s)

\* The deltas update_favor may draw for a text with a tag.
TaggedTexts == {x \in Texts : DeltaSign(x) # "none"}

\* C22: an update that applies a negative delta and leaves the affinity, after
\* clamping, at or below black_favor_limit adds exactly 1 to the strike
\* counter of the user in the store the counter mode selects, also when the
\* clamp at min_favor_value left the affinity where it was; an update with a
\* positive delta, or one that leaves the affinity above black_favor_limit,
\* leaves the strike counter as it was.  No update touches the strike-counter
\* store the counter mode does not select.
C22_StrikeExactlyOnLowNegativeDelta ==
  [](\A u \in (Users \ {bot_self_id}) \ DOMAIN whitelist, n \in NameHints,
        txt \in TaggedTexts, s \in umos :
       \A delta \in _calculate_favor_delta(txt) :
         LET R == ApplyDelta(Mgr, u, n, delta, s, now)
             struck == delta < 0 /\ get_favor(R, u, SidFavor(s)) <= black_favor_limit
         IN /\ get_low_counter(R, u, SidCounter(s))
                 = get_low_counter(Mgr, u, SidCounter(s)) + (IF struck THEN 1 ELSE 0)
            /\ IF session_based_counter THEN R.low_counter = low_counter
               ELSE R.session_low_counter = session_low_counter)

\* The affinity is the minimum and the strike counter is at the bound of the
\* model: the affinity reaches the minimum from 0 with two deltas at most, so
\* a strike was recorded by an update the clamp left at the minimum.
C22_Witness ==
  /\ get_favor(Mgr, "u1", SidFavor("g1")) = min_favor_value
  /\ get_low_counter(Mgr, "u1", SidCounter("g1")) = MaxStrike
  /\ "u1" \notin DOMAIN whitelist

\* C23: in every combination of the flags, an update that applies a positive
\* delta never turns a user who is not listed into a listed one.
C23_PositiveDeltaNeverLists ==
  [][\A u \in Users, s \in umos :
       (/\ ~is_blacklisted(Mgr, u, SidBlacklist(s))
        /\ is_blacklisted(MgrNext, u, SidBlacklist(s)))
       => ~IsPositiveDeltaApplied(u, s)]_vars

\* The same, when the three flags agree.
C23_PositiveDeltaNeverLists_SameMode ==
  [][(session_based_favor = session_based_blacklist
      /\ session_based_blacklist = session_based_counter)
     => \A u \in Users, s \in umos :
          (/\ ~is_blacklisted(Mgr, u, SidBlacklist(s))
           /\ is_blacklisted(MgrNext, u, SidBlacklist(s)))
          => ~IsPositiveDeltaApplied(u, s)]_vars

\* The three stores are addressed in the same mode.
SameMode ==
  /\ session_based_favor = session_based_blacklist
  /\ session_based_blacklist = session_based_counter

\* The session arguments under which a store of the common mode is read.
ModeSessions == IF session_based_counter THEN Sessions ELSE {None}

\* C24: when the affinity, the strike counter and the blacklist are addressed
\* in the same mode (black_threshold is 2 here, at least 1), in every state
\* reached from empty stores every user other than the bot whose strike count
\* is at least black_threshold is on the blacklist: globally in the global
\* mode, and session by session in the session mode.
C24_AtThresholdMeansListed ==
  [](SameMode =>
       \A u \in Users \ {bot_self_id}, sid \in ModeSessions :
         get_low_counter(Mgr, u, sid) >= black_threshold => is_blacklisted(Mgr, u, sid))

\* The flags agree and u1, listed for the second time, has more strikes than
\* the threshold: a removal reset the counter and the strikes came again.
C24_Witness ==
  /\ SameMode
  /\ is_blacklisted(Mgr, "u1", SidBlacklist("g1"))
  /\ get_blacklist_count(Mgr, "u1", SidBlacklist("g1")) = 2
  /\ get_low_counter(Mgr, "u1", SidCounter("g1")) > black_threshold

\* C25: with several requests of a user in flight, each let through while the
\* user was not listed, once a response has put the user on the blacklist the
\* responses that are still to come leave the affinity and the strike counter
\* of the user as they are, however requests and responses interleave.  Under
\* FlightSpec every step is a request or a response, and a request changes
\* neither value.
C25_LateResponsesChangeNothing ==
  [][\A u \in Users, s \in umos :
       is_blacklisted(Mgr, u, SidBlacklist(s))
       => /\ get_favor(MgrNext, u, SidFavor(s)) = get_favor(Mgr, u, SidFavor(s))
          /\ get_low_counter(MgrNext, u, SidCounter(s))
               = get_low_counter(Mgr, u, SidCounter(s))]_vars

\* update_favor as one step, for the call in slot r with the delta it drew.
CallOf(M, r) ==
  LET call == inflight[r]
  IN IF \/ call.user_id = bot_self_id
        \/ call.user_id \in DOMAIN M.whitelist
        \/ _calculate_favor_delta(call.change_text) = {}
     THEN M
     ELSE ApplyDelta(M, call.user_id, call.user_name, call.delta, call.umo, now)

\* The managers the calls of the slots in rs leave when they run one after
\* another from M, in every order.
RECURSIVE SequentialOutcomes(_, _)
SequentialOutcomes(M, rs) ==
  IF rs = {} THEN {M}
  ELSE UNION {SequentialOutcomes(CallOf(M, r), rs \ {r}) : r \in rs}

\* The responses of the burst have all been handled.
BurstDone ==
  /\ origin # NoBurst
  /\ \A r \in Requests : inflight[r].phase \in {"idle", "done"}

\* C26: the affinity write, the strike and the blacklist check of an
\* update_favor call are one step for every other call: when the responses of
\* a burst have been handled, in whatever way the event loop ran their
\* handlers, the manager (affinity, strike counters, blacklists, counts and
\* files) is the one some sequential order of the calls leaves from the
\* manager the burst found.
C26_BurstEqualsSomeSequentialOrder ==
  BurstDone =>
    Mgr \in SequentialOutcomes(origin, {r \in Requests : inflight[r].phase = "done"})

\* Two responses of u1 with negative deltas were handled in one burst, and
\* the second listed the user.
C26_Witness ==
  /\ BurstDone
  /\ \A r \in Requests :
       /\ inflight[r].phase = "done"
       /\ inflight[r].user_id = "u1"
       /\ inflight[r].delta < 0
  /\ is_blacklisted(Mgr, "u1", SidBlacklist("g1"))
  /\ ~is_blacklisted(origin, "u1", SidBlacklist("g1"))

\* C27: the sweeps are crash-safe: when the process dies between two writes
\* of the sweeps and is started again, the files after the sweeps of the new
\* process are the files one uninterrupted run of the sweeps would have left.
\* (A step from a stopped process to a stopped process that changes a file is
\* such a death.)
C27_SweepsAreCrashSafe ==
  [][(process = "stopped" /\ process' = "stopped" /\ disk' # disk)
     => _init_data(disk', now).disk = _init_data(disk, now).disk]_vars

\* The files a process that starts now may find: saved by terminate, or as
\* the last handler left them.
StartFiles == {terminate(Mgr).disk, disk}

\* No entry of a blacklist of M is an automatic one past its window, and no
\* strike counter of M is due for a decrease.
NoneExpired(M) ==
  /\ \A u \in DOMAIN M.blacklist : ~Expired(M.blacklist[u], now)
  /\ \A sid \in DOMAIN M.session_blacklist : \A u \in DOMAIN M.session_blacklist[sid] :
       ~Expired(M.session_blacklist[sid][u], now)
NoneDue(M) ==
  /\ \A u \in DOMAIN M.low_counter :
       ~Due(M.low_counter[u], M.last_decrease_time, u, now)
  /\ \A sid \in DOMAIN M.session_low_counter : \A u \in DOMAIN M.session_low_counter[sid] :
       ~Due(M.session_low_counter[sid][u], M.last_decrease_time, CompositeKey(sid, u), now)

\* The expiry sweep came first: the counter of a user it unlisted was deleted
\* by it and not decreased by the decay sweep, so that the time of the last
\* decrease under the key of that counter is the one the file held.
ExpiryBeforeDecay(M, R) ==
  /\ \A u \in (DOMAIN M.blacklist) \ (DOMAIN R.blacklist) :
       Get(R.last_decrease_time, u, 0) = Get(M.last_decrease_time, u, 0)
  /\ session_based_counter =>
       \A sid \in DOMAIN M.session_blacklist :
         \A u \in (DOMAIN M.session_blacklist[sid])
                    \ (DOMAIN Get(R.session_blacklist, sid, EmptyDict)) :
           Get(R.last_decrease_time, CompositeKey(sid, u), 0)
             = Get(M.last_decrease_time, CompositeKey(sid, u), 0)

\* A step in which a process started.
IsStart == Restart \/ CrashRestart

\* An entry past its window leaves a blacklist, or a strike counter goes down
\* or gets a time of last decrease.
AgedOutOrDecayed ==
  \/ last_decrease_time' # last_decrease_time
  \/ \E u \in DOMAIN blacklist :
       Expired(blacklist[u], now) /\ u \notin DOMAIN blacklist'
  \/ \E sid \in DOMAIN session_blacklist : \E u \in DOMAIN session_blacklist[sid] :
       /\ Expired(session_blacklist[sid][u], now)
       /\ u \notin DOMAIN Get(session_blacklist', sid, EmptyDict)
  \/ \E u \in DOMAIN low_counter : Get(low_counter', u, 0) < low_counter[u]
  \/ \E sid \in DOMAIN session_low_counter : \E u \in DOMAIN session_low_counter[sid] :
       Get(Get(session_low_counter', sid, EmptyDict), u, 0) < session_low_counter[sid][u]

\* C28: a process that starts runs the expiry sweep and then the decay sweep
\* on the loaded stores before it serves a request: the manager it serves
\* with holds no automatic entry past its window and no counter due for a
\* decrease, and the counters of the users the expiry unlisted were deleted,
\* not decreased.  (A second run of either sweep at the same instant would
\* change nothing, so that once is all that can be observed.)  No step after
\* that takes an entry off a blacklist for its age or lowers or stamps a
\* strike counter, but the start of the next process; the removal command of
\* the administrator takes the entry off whatever its age and deletes the
\* counter.
C28_SweepsRunOnceAtStart ==
  /\ [](\A files \in StartFiles :
          LET R == _init_data(files, now)
          IN /\ NoneExpired(R)
             /\ NoneDue(R)
             /\ ExpiryBeforeDecay(LoadAll(files), R))
  /\ [][AgedOutOrDecayed
        => \/ IsStart
           \/ \E u \in Users, s \in umos : AdminBlacklistRemove(u, s)]_vars

\* A process that starts now unlists u1, whose strike counter is due for a
\* decrease as well.
C28_Witness ==
  \E files \in StartFiles :
    LET M == LoadAll(files)
        k == IF session_based_counter THEN CompositeKey("g1", "u1") ELSE "u1"
    IN /\ is_blacklisted(M, "u1", SidBlacklist("g1"))
       /\ Expired(BlacklistEntry(M, "u1", SidBlacklist("g1")), now)
       /\ Due(get_low_counter(M, "u1", SidCounter("g1")), M.last_decrease_time, k, now)
       /\ SameMode

\* The instants of a second sweep before the decay interval has elapsed since
\* the first: the same instant, and the last second of the interval.
SecondSweepTimes == {now, now + auto_decrease_hours * 3600 - 1}

\* C29: the decay sweep is idempotent at a fixed instant.  Every counter it
\* decrements gets the time of its last decrease set to now, whether the
\* counter is kept or deleted, so that a second sweep at the same instant
\* changes nothing at all, in memory or in the files, and a second sweep at
\* any instant before the decay interval has elapsed changes neither such a
\* counter nor its time of last decrease.
C29_DecaySweepIsIdempotent ==
  [](\A M \in DecreaseInputs :
       LET R == _check_auto_decrease(M, now)
       IN /\ _check_auto_decrease(R, now) = R
          /\ \A t2 \in SecondSweepTimes :
               LET R2 == _check_auto_decrease(R, t2)
               IN /\ \A u \in DOMAIN M.low_counter :
                       Get(R.low_counter, u, 0) < M.low_counter[u]
                         => /\ u \in DOMAIN R.last_decrease_time
                            /\ R.last_decrease_time[u] = now
                            /\ Get(R2.low_counter, u, 0) = Get(R.low_counter, u, 0)
                            /\ R2.last_decrease_time[u] = now
                  /\ \A s \in DOMAIN M.session_low_counter :
                       \A u \in DOMAIN M.session_low_counter[s] :
                         LET k == CompositeKey(s, u)
                             after(X) == Get(Get(X.session_low_counter, s, EmptyDict), u, 0)
                         IN after(R) < M.session_low_counter[s][u]
                              => /\ k \in DOMAIN R.last_decrease_time
                                 /\ R.last_decrease_time[k] = now
                                 /\ after(R2) = after(R)
                                 /\ R2.last_decrease_time[k] = now)

\* A sweep that starts now lowers the counter of u1 from MaxStrike and keeps
\* what is left of it, for a second sweep to find.
C29_Witness ==
  \E M \in DecreaseInputs :
    LET k == IF session_based_counter THEN CompositeKey("g1", "u1") ELSE "u1"
        ct == get_low_counter(M, "u1", SidCounter("g1"))
    IN /\ ct = MaxStrike
       /\ ct > auto_decrease_amount
       /\ Due(ct, M.last_decrease_time, k, now)

\* C30: a strike counter with no recorded time of last decrease is overdue.
\* Counting a strike records no such time, in memory or in the file, and the
\* decay sweep of a process that starts now takes auto_decrease_amount off
\* every counter above 0 whose key has none (deleting it at 0) and stamps it
\* with now, even when the strike was counted at this very instant.
C30_UnstampedCounterIsOverdue ==
  [](/\ \A u \in Users, sid \in umos \cup {None} :
          LET R == increment_low_counter(Mgr, u, sid)
          IN /\ R.last_decrease_time = last_decrease_time
             /\ R.disk["last_decrease_time"] = disk["last_decrease_time"]
     /\ \A M \in DecreaseInputs :
          LET R == _check_auto_decrease(M, now)
          IN /\ \A u \in DOMAIN M.low_counter :
                  (M.low_counter[u] > 0 /\ u \notin DOMAIN M.last_decrease_time)
                    => /\ Get(R.low_counter, u, 0)
                            = Max(0, M.low_counter[u] - auto_decrease_amount)
                       /\ Get(R.last_decrease_time, u, 0) = now
             /\ session_based_counter =>
                  \A s \in DOMAIN M.session_low_counter :
                    \A u \in DOMAIN M.session_low_counter[s] :
                      LET k == CompositeKey(s, u)
                          ct == M.session_low_counter[s][u]
                      IN (ct > 0 /\ k \notin DOMAIN M.last_decrease_time)
                           => /\ Get(Get(R.session_low_counter, s, EmptyDict), u, 0)
                                   = Max(0, ct - auto_decrease_amount)
                              /\ Get(R.last_decrease_time, k, 0) = now)

\* No time has passed since the strikes of u1 were counted, none of them was
\* ever decayed, and a process that starts now finds them in the file.
C30_Witness ==
  LET k == IF session_based_counter THEN CompositeKey("g1", "u1") ELSE "u1"
      M == LoadAll(disk)
  IN /\ now = StartTime
     /\ get_low_counter(M, "u1", SidCounter("g1")) > 0
     /\ k \notin DOMAIN M.last_decrease_time
     /\ M \in DecreaseInputs

\* The dicts d0 and d1 agree on the key k: both lack it or both hold the same
\* value under it.
SameAt(d0, d1, k) ==
  /\ (k \in DOMAIN d0) <=> (k \in DOMAIN d1)
  /\ (k \in DOMAIN d0) => d0[k] = d1[k]

\* Of a family of two stores, the global one (g0 before, g1 after) and the
\* session one (s0, s1), only the entry of user u is written, in the store
\* the flag selects and, in the session store, in the row of session s.
OnlyEntryWritten(g0, g1, s0, s1, session_based, u, s) ==
  IF session_based
  THEN /\ g1 = g0
       /\ \A s2 \in (DOMAIN s0) \cup (DOMAIN s1) :
            LET r0 == Get(s0, s2, EmptyDict)
                r1 == Get(s1, s2, EmptyDict)
            IN \A u2 \in (DOMAIN r0) \cup (DOMAIN r1) :
                 <<s2, u2>> # <<s, u>> => SameAt(r0, r1, u2)
  ELSE /\ s1 = s0
       /\ \A u2 \in (DOMAIN g0) \cup (DOMAIN g1) : u2 # u => SameAt(g0, g1, u2)

\* C31: in each of the eight combinations of the three flags, update_favor
\* with a delta for user u in session s writes, in memory, only the affinity
\* record of u in the affinity store the flag session_based_favor selects,
\* the strike counter of u in the counter store session_based_counter
\* selects, and the entry and the count of u in the blacklist stores
\* session_based_blacklist selects.  The entries of other users and of other
\* sessions, the store of each family that is not selected, the whitelist
\* and the times of last decrease are as they were.
C31_DeltaWritesItsOwnEntriesOnly ==
  [](\A u \in FrameUsers, s \in umos, n \in NameHints, txt \in FrameTexts :
       \A delta \in _calculate_favor_delta(txt) :
         LET M == Mgr
             R == ApplyDelta(M, u, n, delta, s, now)
         IN /\ OnlyEntryWritten(M.favor_data, R.favor_data,
                                M.session_favor_data, R.session_favor_data,
                                session_based_favor, u, s)
            /\ OnlyEntryWritten(M.low_counter, R.low_counter,
                                M.session_low_counter, R.session_low_counter,
                                session_based_counter, u, s)
            /\ OnlyEntryWritten(M.blacklist, R.blacklist,
                                M.session_blacklist, R.session_blacklist,
                                session_based_blacklist, u, s)
            /\ OnlyEntryWritten(M.blacklist_counts, R.blacklist_counts,
                                M.session_blacklist_counts, R.session_blacklist_counts,
                                session_based_blacklist, u, s)
            /\ R.whitelist = M.whitelist
            /\ R.last_decrease_time = M.last_decrease_time)

\* With session affinity, session counters and a global blacklist, responses
\* in the group have put u1 on the blacklist while u2 has a strike in the
\* group and u1 has one, and another affinity, in the private chat.
C31_Witness ==
  /\ session_based_favor /\ session_based_counter /\ ~session_based_blacklist
  /\ umos = Sessions
  /\ "u1" \in DOMAIN blacklist
  /\ get_low_counter(Mgr, "u1", "g1") >= black_threshold
  /\ get_low_counter(Mgr, "u2", "g1") >= 1
  /\ get_low_counter(Mgr, "u1", "p1") >= 1
  /\ get_favor(Mgr, "u1", "p1") # get_favor(Mgr, "u1", "g1")

\* The length of the window of an automatic entry, in seconds.
RemoveWindow == auto_remove_hours * 3600

\* C32: add_to_blacklist of a user who is listed already keeps the members
\* of both blacklists and every count, and replaces the entry of the user by
\* one with the current time and the auto_added of this call.  So a manual
\* add over an automatic entry leaves an entry the expiry sweep never
\* removes, and an automatic add over a manual entry leaves one the sweep
\* removes once a full window has passed since this call, and not before.
C32_ReAddReplacesEntry ==
  [](\A u \in Users \ {bot_self_id}, s \in Sessions, a \in BOOLEAN :
       LET sid == SidBlacklist(s)
           R == add_to_blacklist(Mgr, u, sid, a, now)
       IN is_blacklisted(Mgr, u, sid)
            => /\ DOMAIN R.blacklist = DOMAIN blacklist
               /\ DOMAIN R.session_blacklist = DOMAIN session_blacklist
               /\ \A s2 \in DOMAIN session_blacklist :
                    DOMAIN R.session_blacklist[s2] = DOMAIN session_blacklist[s2]
               /\ R.blacklist_counts = blacklist_counts
               /\ R.session_blacklist_counts = session_blacklist_counts
               /\ BlacklistEntry(R, u, sid) = [timestamp |-> now, auto_added |-> a]
               /\ is_blacklisted(_check_auto_removal(R, now + RemoveWindow - 1), u, sid)
               /\ is_blacklisted(_check_auto_removal(R, now + RemoveWindow), u, sid) <=> ~a)

\* u1 is listed with an entry older than now, so that a second add shows in
\* the timestamp, and the entry is an automatic one.
C32_Witness ==
  /\ is_blacklisted(Mgr, "u1", SidBlacklist("g1"))
  /\ BlacklistEntry(Mgr, "u1", SidBlacklist("g1")).timestamp < now
  /\ BlacklistEntry(Mgr, "u1", SidBlacklist("g1")).auto_added

\* A step of one of the two whitelist commands of the administrator.
IsWhitelistCommand ==
  \E u \in Users, s \in umos : AdminWhitelistAdd(u, s) \/ AdminWhitelistRemove(u, s)

\* A step keeps every affinity value, strike counter, blacklist entry and
\* blacklist count, and a user the blacklist stopped is listed and stopped
\* after it.
WhitelistFrame ==
  /\ blacklist' = blacklist /\ session_blacklist' = session_blacklist
  /\ low_counter' = low_counter /\ session_low_counter' = session_low_counter
  /\ blacklist_counts' = blacklist_counts
  /\ session_blacklist_counts' = session_blacklist_counts
  /\ \A u \in Users, sid \in SessionArgs :
       get_favor(MgrNext, u, sid) = get_favor(Mgr, u, sid)
  /\ \A u \in Users, s \in umos :
       is_blacklisted(Mgr, u, SidBlacklist(s))
         => /\ is_blacklisted(MgrNext, u, SidBlacklist(s))
            /\ \A n \in NameHints : handle_llm_request_favor(MgrNext, u, n, s).stopped

\* C33: the commands that put a user on the whitelist or take one off it
\* change no affinity value, no strike counter, no blacklist entry and no
\* blacklist count; a user who was on the blacklist when the command ran is
\* on it afterwards, and the requests of that user are still stopped.
C33_WhitelistCommandsTouchNothingElse ==
  [][~WhitelistFrame => ~IsWhitelistCommand]_vars

\* u1 was put on the blacklist by strikes and on the whitelist after that:
\* update_favor counts no strike of a user on the whitelist.
C33_Witness ==
  /\ "u1" \in DOMAIN whitelist
  /\ is_blacklisted(Mgr, "u1", SidBlacklist("g1"))
  /\ BlacklistEntry(Mgr, "u1", SidBlacklist("g1")).auto_added
  /\ get_low_counter(Mgr, "u1", SidCounter("g1")) >= black_threshold
  /\ get_favor(Mgr, "u1", SidFavor("g1")) <= black_favor_limit

\* Every counter of the global store d is at least 1, and every counter of
\* the session store sd.
CountersPositive(d, sd) ==
  /\ \A u \in DOMAIN d : d[u] >= 1
  /\ \A s \in DOMAIN sd : \A u \in DOMAIN sd[s] : sd[s][u] >= 1

\* C34: from empty stores on, every strike counter that is stored, in memory
\* or in a file, is 1 or more: a counter that is reset, or that decays to 0,
\* is deleted from its store, and get_low_counter returns 0 for a user with
\* no stored counter.
C34_StoredCountersArePositive ==
  [](/\ CountersPositive(low_counter, session_low_counter)
     /\ CountersPositive(Loaded(disk["low_counter"]), Loaded(disk["session_low_counter"]))
     /\ \A u \in Users, sid \in SessionArgs :
          LET row == IF session_based_counter /\ sid # None
                     THEN Get(session_low_counter, sid, EmptyDict) ELSE low_counter
          IN u \notin DOMAIN row => get_low_counter(Mgr, u, sid) = 0)

\* The counter of u1 was decreased by a sweep and is not stored any more.
C34_Witness ==
  LET k == IF session_based_counter THEN CompositeKey("g1", "u1") ELSE "u1"
  IN /\ k \in DOMAIN last_decrease_time
     /\ "u1" \notin DOMAIN low_counter
     /\ "u1" \notin DOMAIN Get(session_low_counter, "g1", EmptyDict)
     /\ get_low_counter(Mgr, "u1", SidCounter("g1")) = 0

\* C35: in every reachable state, whatever range min_favor_value <=
\* max_favor_value is configured, every stored affinity lies in the range:
\* the one of a record _get_favor_data_entry has just created, and the one
\* a removal from the blacklist or the expiry sweep has reset.
C35_StoredAffinityInConfiguredRange ==
  /\ \A u \in DOMAIN favor_data : InBounds(favor_data[u].favor)
  /\ \A s \in DOMAIN session_favor_data : \A u \in DOMAIN session_favor_data[s] :
       InBounds(session_favor_data[s][u].favor)

\* A step after which an affinity record of the global table, or of a row of
\* the session table, is not there any more.
RecordLost ==
  \/ \E u \in DOMAIN favor_data : u \notin DOMAIN favor_data'
  \/ \E s \in DOMAIN session_favor_data : \E u \in DOMAIN session_favor_data[s] :
       u \notin DOMAIN Get(session_favor_data', s, EmptyDict)

\* C36: no step deletes an affinity record: a record that exists for a user
\* in the global table, or for a session and a user in the session table,
\* exists after every step.
C36_AffinityRecordsPersist ==
  [][~RecordLost]_vars

\* The steps that lose a record are those of a process that died without
\* terminate: no handler and no start after terminate loses one.
C36_AffinityRecordsOutliveOperations ==
  [][RecordLost => CrashRestart]_vars

\* The session and user of every stored session counter.
SessionCounterPairs ==
  UNION {{<<s, u>> : u \in DOMAIN session_low_counter[s]} : s \in DOMAIN session_low_counter}

\* C37: in last_decrease_time the key of a global counter, the user id, is
\* never the key of a session counter, and the counters of two different
\* pairs of session and user never have the same key, whatever the
\* identifiers of the users and sessions are.
C37_TimestampKeysNeverCollide ==
  (process = "running" /\ session_based_counter)
    => /\ \A u \in DOMAIN low_counter, p \in SessionCounterPairs :
            u # CompositeKey(p[1], p[2])
       /\ \A p \in SessionCounterPairs, q \in SessionCounterPairs :
            p # q => CompositeKey(p[1], p[2]) # CompositeKey(q[1], q[2])

\* The tags in the order C38 gives, and the range of the delta of each.
TagOrder == << "big_up", "up", "big_down", "down" >>
TagRange == [t \in Tags |->
               CASE t = "big_up" -> 5 .. 10
                 [] t = "up" -> 1 .. 5
                 [] t = "big_down" -> (0 - 15) .. (0 - 5)
                 [] t = "down" -> (0 - 5) .. (0 - 1)]

\* The places in TagOrder of the tags a text holds.
PlacesOf(text) == {i \in 1 .. Len(TagOrder) : TagOrder[i] \in text}

\* C38: _calculate_favor_delta looks for the tags in the order large
\* increase, increase, large decrease, decrease, and the first one the text
\* holds decides: the result is an integer in [5,10], [1,5], [-15,-5] or
\* [-5,-1], and None when the text holds no tag.  So the delta of a text
\* with a tag of increase and a tag of decrease is positive.
C38_FirstTagInOrderDecides ==
  returned_delta # NotCalled
    => /\ IF PlacesOf(completion_text) = {} THEN returned_delta.returned = "None"
          ELSE LET first == CHOOSE i \in PlacesOf(completion_text) :
                              \A j \in PlacesOf(completion_text) : i <= j
               IN /\ returned_delta.returned = "int"
                  /\ returned_delta.int \in TagRange[TagOrder[first]]
       /\ (/\ completion_text \cap {"big_up", "up"} # {}
           /\ completion_text \cap {"big_down", "down"} # {})
            => returned_delta.returned = "int" /\ returned_delta.int > 0

\* The text holds the tag of increase and the two tags of decrease, and a
\* delta was drawn for it.
C38_Witness ==
  /\ completion_text = {"up", "big_down", "down"}
  /\ returned_delta # NotCalled
  /\ returned_delta.returned = "int"

\* The decay attributes of the manager are the configured ones.
DecayAsConfigured ==
  /\ auto_decrease_enabled = config_auto_decrease_counter
  /\ auto_decrease_hours = config_auto_decrease_counter_hours
  /\ auto_decrease_amount = config_auto_decrease_counter_amount

\* What the decay sweep makes of the counter ct whose last decrease was at
\* time last, with the configured parameters.
DecayedAsConfigured(ct, last) ==
  IF /\ config_auto_decrease_counter
     /\ ct > 0
     /\ now - last >= config_auto_decrease_counter_hours * 3600
  THEN Max(0, ct - config_auto_decrease_counter_amount)
  ELSE ct

\* The counters after this step are those the files held, less those the
\* expiry sweep deleted, decayed with the configured parameters.
SweptAsConfigured ==
  LET M == _check_auto_removal(LoadAll(disk), now)
  IN /\ \A u \in DOMAIN M.low_counter :
          Get(low_counter', u, 0)
            = DecayedAsConfigured(M.low_counter[u], Get(M.last_decrease_time, u, 0))
     /\ session_based_counter =>
          \A s \in DOMAIN M.session_low_counter : \A u \in DOMAIN M.session_low_counter[s] :
            Get(Get(session_low_counter', s, EmptyDict), u, 0)
              = DecayedAsConfigured(M.session_low_counter[s][u],
                                    Get(M.last_decrease_time, CompositeKey(s, u), 0))

\* C39: the counter command of the administrator changes the decay
\* parameters of the running manager and nothing else: no strike counter,
\* no time of last decrease, no other store and no file, and no sweep runs.
\* The parameters are not saved: when the next process has read its
\* configuration they are the configured ones again, and the decay sweep of
\* its start treats every counter with the configured switch, interval and
\* amount.
C39_DecayCommandIsMemoryOnly ==
  /\ [][(process = "running" /\ process' = "running" /\ decay' # decay)
         => (stores' = stores /\ disk' = disk)]_vars
  /\ [](process = "configured" => DecayAsConfigured)
  /\ [][(process = "configured" /\ process' = "running") => SweptAsConfigured]_vars

\* The administrator has switched the decay off and set its amount to 1, the
\* process was terminated, and the file holds a counter of u1 that is due.
C39_Witness ==
  /\ process = "stopped"
  /\ ~auto_decrease_enabled
  /\ auto_decrease_amount # config_auto_decrease_counter_amount
  /\ get_low_counter(LoadAll(disk), "u1", SidCounter("g1")) = MaxStrike

====
